---- MODULE Spec2Model ----
(***************************************************************************)
(* Model of the health coordinator (src/core/health_coordinator.py) and    *)
(* of the assessors it fans out to (src/core/health_agents.py,             *)
(* src/core/sports/injury_predictor.py,                                    *)
(* src/core/economics/economics_agent.py).                                 *)
(*                                                                         *)
(* Encoding of Python values:                                              *)
(*   - a text (recommendation, warning, insight, barrier) is a sequence    *)
(*     of tokens; its first token is the leading glyph when it has one;    *)
(*   - a dict is a record; a key that may be missing is a record with a    *)
(*     field `present`; a nested dict that may be {} carries the empty     *)
(*     string in the fields that .get() would default;                     *)
(*   - risk_score and confidence are IEEE doubles, kept exactly as a       *)
(*     number of units of 2^-57 in two limbs; overall_score is a fraction  *)
(*     num/den.                                                            *)
(***************************************************************************)
EXTENDS Integers, Sequences, FiniteSets, TLC

\* ------------------------------------------------------------------ bounds
MaxSessions == 2      \* sessions the memory system holds before the call
MaxTurns == 3         \* turns each of these sessions holds
MaxHits == 2          \* memory hits handed to a direct _synthesize_results call
MaxConvTurns == 10    \* messages one ConversationManager handles

\* --------------------------------------------------------------- constants
TopK == 5             \* top_k passed by process_message

\* ------------------------------------------------------------------- texts
MentalWarning == <<"WARN", "mental_high_risk_seek_help_now">>
InjuryWarning == <<"WARN", "injury_risk_high">>
BarrierWarning == <<"MONEY", "economic_barriers_detected">>
AccessibilityWarning == <<"WARN", "healthcare_accessibility_low">>
AccessibilityInsight == <<"OK", "healthcare_accessibility_good">>
ClosingGood == <<"GREEN", "overall_good_keep_going">>
ClosingAttention == <<"YELLOW", "mind_body_attention_adjust_lifestyle">>
ClosingCritical == <<"RED", "consult_medical_professional_soon">>
PriorityMental == "mental_health"
PriorityPhysical == "physical_health"

MemoryInsight(n) == <<"history_relevant_experiences", ToString(n)>>

\* the body keywords of PhysicalHealthAgent.analyze, as message tokens
BodyKeywords == {"pain", "ache", "discomfort", "fatigue", "injured",
                 "knee", "ankle", "muscle", "joint"}

NotAString == <<"<not-a-str>">>

\* --------------------------------------------------------- generic helpers
Prefix(s, n) == SubSeq(s, 1, IF Len(s) < n THEN Len(s) ELSE n)

Suffix(s, n) == SubSeq(s, IF Len(s) < n THEN 1 ELSE Len(s) - n + 1, Len(s))

SeqRange(s) == {s[i] : i \in 1..Len(s)}

Min(a, b) == IF a < b THEN a ELSE b

\* ------------------------------------------------------------------ floats
\* A double x with 0 <= x < 2 that is a multiple of 2^-57 is the record
\* [hi, lo] with x = (hi * 2^28 + lo) * 2^-57 and 0 <= lo < 2^28.
FloatBase == 268435456

Float(hi, lo) == [hi |-> hi, lo |-> lo]

\* the doubles the float literals of injury_predictor.py denote
D_0_0 == Float(0, 0)
D_0_05 == Float(26843545, 161061274)
D_0_1 == Float(53687091, 53687092)
D_0_15 == Float(80530636, 214748364)
D_0_2 == Float(107374182, 107374184)
D_0_3 == Float(161061273, 161061272)
D_0_5 == Float(268435456, 0)
D_0_6 == Float(322122547, 53687088)
D_0_9 == Float(483183820, 214748368)
D_1_0 == Float(536870912, 0)

\* the spacing of the doubles around x (53 significant bits), in units
FloatUlp(x) ==
    IF x.hi >= 2 * FloatBase THEN 32
    ELSE IF x.hi >= FloatBase THEN 16
    ELSE IF x.hi >= FloatBase \div 2 THEN 8
    ELSE IF x.hi >= FloatBase \div 4 THEN 4
    ELSE IF x.hi >= FloatBase \div 8 THEN 2
    ELSE 1

FloatCarry(hi, lo) == Float(hi + lo \div FloatBase, lo % FloatBase)

\* round to nearest, ties to even: u is the spacing around x, r what x has
\* beyond a multiple of u
FloatRoundBy(x, u, r) ==
    IF r = 0 THEN x
    ELSE IF 2 * r < u \/ (2 * r = u /\ ((x.lo - r) \div u) % 2 = 0)
    THEN Float(x.hi, x.lo - r)
    ELSE FloatCarry(x.hi, x.lo - r + u)

FloatRound(x) == FloatRoundBy(x, FloatUlp(x), x.lo % FloatUlp(x))

\* the rounded sum of two doubles
FloatSum(x, y) == FloatRound(FloatCarry(x.hi + y.hi, x.lo + y.lo))

\* a + b: each operand is evaluated once, then the sum is formed
FloatAdd(a, b) == CHOOSE sum \in {FloatSum(x, y) : x \in {a}, y \in {b}} : TRUE

\* n * a for a small integer n

FloatTimes(n, a) == FloatRound(FloatCarry(n * a.hi, n * a.lo))

FloatLess(a, b) == a.hi < b.hi \/ (a.hi = b.hi /\ a.lo < b.lo)

FloatMin(a, b) == IF FloatLess(b, a) THEN b ELSE a

\* ------------------------------------------------------------ result dicts
\* One record shape for every assessor's result dict: the keys an assessor
\* does not set are absent.  EmptyDict is {}.
EmptyAccessibility == [has_score |-> FALSE, num |-> 1, den |-> 2]

EmptyDict ==
    [agent_type |-> "",
     risk_assessment |-> [present |-> FALSE, risk_level |-> ""],
     injury_risk |-> [present |-> FALSE, risk_level |-> "", risk_score |-> D_0_0],
     economic_assessment |-> [present |-> FALSE, relative_level |-> ""],
     healthcare_accessibility |-> EmptyAccessibility,
     recommendations |-> <<>>, barriers |-> <<>>, opportunities |-> <<>>,
     error |-> FALSE]

\* {'error': ...}
ErrorDict == [EmptyDict EXCEPT !.error = TRUE]

\* ------------------------------------------------- MentalHealthAgent.analyze
\* crisis: what crisis_detector.assess_risk does: "raise", or the value of
\* its 'risk_level' key ("" when the key is missing).
\* conversation: "ok" or "raise" (conversation manager, behaviour analyzer).
MentalRecommendations(level) ==
    IF level = "high"
    THEN << <<"seek_professional_mental_help_now">>, <<"contact_hotline_or_counsellor">> >>
    ELSE IF level = "medium"
    THEN << <<"watch_mental_health_consider_professional">>, <<"try_relaxation_stress_management">> >>
    ELSE << <<"keep_good_mental_habits">>, <<"regular_reflection_emotion_management">> >>

MentalAnalyze(initialized, crisis, conversation) ==
    IF ~initialized
    THEN ErrorDict
    ELSE LET result == [EmptyDict EXCEPT
                           !.agent_type = "mental_health",
                           !.risk_assessment = [present |-> TRUE, risk_level |-> ""]]
             level == IF crisis = "" THEN "low" ELSE crisis
         IN IF crisis = "raise"
            THEN [result EXCEPT !.error = TRUE]
            ELSE IF conversation = "raise"
            THEN [result EXCEPT !.risk_assessment.risk_level = level, !.error = TRUE]
            ELSE [result EXCEPT !.risk_assessment.risk_level = level,
                                !.recommendations = MentalRecommendations(level)]

\* ------------------------------------------- InjuryRiskPredictor (rule based)
NoSportsData ==
    [kind |-> "none", recent_injury |-> FALSE, training_load |-> 0,
     match_intensity |-> 0, games_played |-> 0, age |-> 25,
     has_recovery |-> FALSE, recovery_days |-> 0]

MalformedSportsData == [NoSportsData EXCEPT !.kind = "malformed"]

\* variant: the confidence is not capped at 0.9
ConfidenceUncapped(n) == FloatAdd(D_0_5, FloatTimes(n, D_0_1))

\* confidence = min(0.9, 0.5 + len(risk_factors) * 0.1)
Confidence(n) == FloatMin(D_0_9, FloatAdd(D_0_5, FloatTimes(n, D_0_1)))

\* the rules that fire, in the order the code tests them: each appends its
\* factor and adds its weight
TriggeredRules(sd) ==
    (IF sd.recent_injury
     THEN <<[factor |-> "recent_injury", weight |-> D_0_3]>> ELSE <<>>)
    \o (IF sd.training_load > 80
        THEN <<[factor |-> "training_load_too_high", weight |-> D_0_2]>>
        ELSE IF sd.training_load > 60
        THEN <<[factor |-> "training_load_high", weight |-> D_0_1]>> ELSE <<>>)
    \o (IF sd.match_intensity > 80
        THEN <<[factor |-> "match_intensity_too_high", weight |-> D_0_2]>>
        ELSE IF sd.match_intensity > 60
        THEN <<[factor |-> "match_intensity_high", weight |-> D_0_1]>> ELSE <<>>)
    \o (IF sd.games_played > 20
        THEN <<[factor |-> "too_many_games", weight |-> D_0_1]>> ELSE <<>>)
    \o (IF sd.age > 30
        THEN <<[factor |-> "age", weight |-> D_0_05]>> ELSE <<>>)
    \o (IF sd.has_recovery /\ sd.recovery_days < 2
        THEN <<[factor |-> "recovery_too_short", weight |-> D_0_15]>> ELSE <<>>)

\* risk_score = 0.0, then risk_score += weight for the first n rules in turn
RECURSIVE RiskScoreAfter(_, _)
RiskScoreAfter(rules, n) ==
    IF n = 0 THEN D_0_0
    ELSE FloatAdd(RiskScoreAfter(rules, n - 1), rules[n].weight)

RiskLevel(risk_score) ==
    IF FloatLess(risk_score, D_0_3) THEN "low"
    ELSE IF FloatLess(risk_score, D_0_6) THEN "medium" ELSE "high"

RulesResult(rules, risk_score) ==
    [risk_score |-> risk_score, risk_level |-> RiskLevel(risk_score),
     risk_factors |-> [i \in 1..Len(rules) |-> rules[i].factor],
     confidence |-> Confidence(Len(rules))]

\* the rules are tested once; the singleton set holds their outcome
PredictWithRules(sd) ==
    CHOOSE result \in
        {RulesResult(rules, FloatMin(D_1_0, RiskScoreAfter(rules, Len(rules))))
            : rules \in {TriggeredRules(sd)}} : TRUE

\* predict_risk: the rule path; an exception inside it (sports_data that is
\* not a dict) is swallowed and the default result returned.
PredictRisk(sd) ==
    IF sd.kind = "malformed"
    THEN [risk_score |-> D_0_0, risk_level |-> "low", risk_factors |-> <<>>,
          confidence |-> D_0_0]
    ELSE PredictWithRules(sd)

GenerateRecommendations(risk_score, risk_factors) ==
    LET tier == IF FloatLess(D_0_6, risk_score)
                THEN << <<"WARN", "reduce_training_now">>, <<"full_body_assessment">>,
                        <<"focus_recovery_nutrition">>, <<"consult_sports_medicine">> >>
                ELSE IF FloatLess(D_0_3, risk_score)
                THEN << <<"adjust_training_plan">>, <<"more_warmup_stretching">>,
                        <<"monitor_body_response">>, <<"enough_sleep_nutrition">> >>
                ELSE << <<"keep_current_plan">>, <<"keep_monitoring">>,
                        <<"keep_good_habits">> >>
        a == IF "training_load_too_high" \in SeqRange(risk_factors)
             THEN << <<"lower_training_intensity">> >> ELSE <<>>
        b == IF "match_intensity_too_high" \in SeqRange(risk_factors)
             THEN << <<"fewer_matches">> >> ELSE <<>>
        c == IF "recent_injury" \in SeqRange(risk_factors)
             THEN << <<"professional_rehab">> >> ELSE <<>>
    IN tier \o a \o b \o c

\* ----------------------------------------------- PhysicalHealthAgent.analyze
DetectedKeywords(message) == {message[i] : i \in 1..Len(message)} \cap BodyKeywords

\* analyze once predict_risk has returned p (truthy: sports_data was given)
PhysicalResult(message, truthy, p) ==
    LET injury == IF truthy
                  THEN [present |-> TRUE, risk_level |-> p.risk_level,
                        risk_score |-> p.risk_score]
                  ELSE [present |-> TRUE, risk_level |-> "", risk_score |-> D_0_0]
        recs == IF truthy THEN GenerateRecommendations(p.risk_score, p.risk_factors)
                ELSE <<>>
        result == [EmptyDict EXCEPT !.agent_type = "physical_health",
                                    !.injury_risk = injury,
                                    !.recommendations = recs]
    IN IF message = NotAString
       THEN [result EXCEPT !.error = TRUE]
       ELSE IF DetectedKeywords(message) # {}
       THEN [result EXCEPT
               !.recommendations = Append(recs, <<"see_doctor_if_symptoms_persist">>)]
       ELSE result

\* predict_risk is called once; the singleton set holds what it returned
PhysicalAnalyze(initialized, message, sd) ==
    IF ~initialized
    THEN ErrorDict
    ELSE CHOOSE result \in
             {PhysicalResult(message, sd.kind # "none", p) : p \in {PredictRisk(sd)}} : TRUE

\* ------------------------------------------------ country_health_profiles
NoProfile ==
    [found |-> FALSE, healthcare_accessibility |-> 0, public_healthcare_coverage |-> 0,
     gdp_per_capita |-> 1, common_health_issues |-> {}, cultural_health_beliefs |-> {}]

\* healthcare_accessibility and public_healthcare_coverage in hundredths
COUNTRY_HEALTH_DATABASE(code) ==
    IF code = "US"
    THEN [found |-> TRUE, healthcare_accessibility |-> 70, public_healthcare_coverage |-> 50,
          gdp_per_capita |-> 63000,
          common_health_issues |-> {"obesity", "diabetes", "heart_disease", "mental_health"},
          cultural_health_beliefs |-> {"preventive_care", "fitness_culture"}]
    ELSE IF code = "CN"
    THEN [found |-> TRUE, healthcare_accessibility |-> 80, public_healthcare_coverage |-> 95,
          gdp_per_capita |-> 10500,
          common_health_issues |-> {"respiratory_disease", "diabetes", "hypertension", "cancer"},
          cultural_health_beliefs |-> {"traditional_medicine", "preventive_care"}]
    ELSE IF code = "IN"
    THEN [found |-> TRUE, healthcare_accessibility |-> 50, public_healthcare_coverage |-> 30,
          gdp_per_capita |-> 2100,
          common_health_issues |-> {"infectious_disease", "malnutrition", "diabetes", "tuberculosis"},
          cultural_health_beliefs |-> {"ayurveda", "yoga", "traditional_medicine"}]
    ELSE IF code = "BR"
    THEN [found |-> TRUE, healthcare_accessibility |-> 70, public_healthcare_coverage |-> 80,
          gdp_per_capita |-> 8500,
          common_health_issues |-> {"dengue", "diabetes", "hypertension", "mental_health"},
          cultural_health_beliefs |-> {"preventive_care", "community_health"}]
    ELSE NoProfile

\* str.upper() on the country codes the model uses
Upper(code) ==
    IF code = "us" THEN "US" ELSE IF code = "in" THEN "IN" ELSE code

GetCountryProfile(country_code) == COUNTRY_HEALTH_DATABASE(Upper(country_code))

\* ---------------------------------------------------- EconomicsHealthAgent
\* user_income: [kind |-> "none" | "num" | "bad", v |-> dollars]
\* country_code: "" (None), a code, or "<not-a-str>"
\* health_concerns: "none", "mental" (a list holding 'mental_health'),
\*                  "other" (a list without it), "bad" (not iterable)
NoIncome == [kind |-> "none", v |-> 0]

Income(v) == [kind |-> "num", v |-> v]

BadIncome == [kind |-> "bad", v |-> 0]

Truthy(user_income) == user_income.kind = "bad" \/ (user_income.kind = "num" /\ user_income.v # 0)

\* _can_afford_healthcare (and _can_afford_preventive, which delegates to it)
CanAffordHealthcare(income, profile) ==
    IF ~profile.found THEN income > 5000
    ELSE IF profile.public_healthcare_coverage > 80 THEN TRUE
    ELSE 85 * income > 30 * profile.gdp_per_capita

CanAffordMentalHealth(income, profile) ==
    IF profile.found /\ profile.public_healthcare_coverage > 90 THEN TRUE
    ELSE income > 10000

NoAffordability ==
    [assessed |-> FALSE, healthcare |-> FALSE, preventive_care |-> FALSE,
     mental_health |-> FALSE]

\* _assess_income_level: classified against the country's GDP per capita, or
\* against the World Bank thresholds; 'unknown' only for `user_income is None`
\* (an income that is not a number raises in the comparisons: the callers
\* decide that case before they use the value)
ClassifyIncome(income, profile) ==
    IF profile.found
    THEN [relative_level |->
              IF 2 * income < profile.gdp_per_capita THEN "low"
              ELSE IF income < profile.gdp_per_capita THEN "below_average"
              ELSE IF 2 * income < 3 * profile.gdp_per_capita THEN "average"
              ELSE IF income < 2 * profile.gdp_per_capita THEN "above_average"
              ELSE "high",
          affordability |->
              [assessed |-> TRUE,
               healthcare |-> CanAffordHealthcare(income, profile),
               preventive_care |-> CanAffordHealthcare(income, profile),
               mental_health |-> CanAffordMentalHealth(income, profile)]]
    ELSE [relative_level |->
              IF income < 1045 THEN "very_low"
              ELSE IF income < 4095 THEN "low"
              ELSE IF income < 12695 THEN "middle"
              ELSE "high",
          affordability |-> NoAffordability]

\* variant: a missing income is classified as an income of 0
AssessIncomeLevelNoneAsZero(user_income, profile) == ClassifyIncome(user_income.v, profile)

AssessIncomeLevel(user_income, profile) ==
    IF user_income.kind = "none"
    THEN [relative_level |-> "unknown", affordability |-> NoAffordability]
    ELSE ClassifyIncome(user_income.v, profile)

NeutralAccessibility == [has_score |-> TRUE, num |-> 1, den |-> 2]

AssessHealthcareAccessibility(user_income, profile) ==
    IF ~profile.found
    THEN NeutralAccessibility
    ELSE LET gdp == profile.gdp_per_capita
             income_part == IF Truthy(user_income)
                            THEN 600 * Min(gdp, user_income.v)
                            ELSE 300 * gdp
         IN [has_score |-> TRUE,
             num |-> 8 * profile.healthcare_accessibility * gdp + income_part
                     + 6 * profile.public_healthcare_coverage * gdp,
             den |-> 2000 * gdp]

\* _identify_economic_barriers past its first test: the income is truthy
KnownIncomeBarriers(user_income, profile, health_concerns) ==
    IF ~profile.found
    THEN IF user_income.v < 5000 THEN << <<"low_income_limits_medical_choice">> >> ELSE <<>>
    ELSE (IF 2 * user_income.v < profile.gdp_per_capita
          THEN << <<"income_far_below_national_average">>, <<"no_access_to_quality_care">> >>
          ELSE <<>>)
         \o (IF profile.public_healthcare_coverage < 50
             THEN << <<"low_public_coverage_pay_yourself">> >> ELSE <<>>)
         \o (IF user_income.v < 10000 /\ health_concerns = "mental"
             THEN << <<"mental_health_services_expensive">> >> ELSE <<>>)
         \o (IF profile.healthcare_accessibility < 60
             THEN << <<"national_accessibility_low">> >> ELSE <<>>)

\* variant: a missing income is no barrier
IdentifyEconomicBarriersKnownOnly(user_income, profile, health_concerns) ==
    IF ~Truthy(user_income)
    THEN <<>>
    ELSE KnownIncomeBarriers(user_income, profile, health_concerns)

IdentifyEconomicBarriers(user_income, profile, health_concerns) ==
    IF ~Truthy(user_income)
    THEN << <<"income_unknown_cannot_assess_barriers">> >>
    ELSE KnownIncomeBarriers(user_income, profile, health_concerns)

IdentifyOpportunities(user_income, profile) ==
    IF ~profile.found
    THEN <<>>
    ELSE (IF profile.public_healthcare_coverage > 80
          THEN << <<"high_public_coverage">>, <<"prefer_public_services">> >> ELSE <<>>)
         \o (IF profile.healthcare_accessibility > 70
             THEN << <<"easy_preventive_care">> >> ELSE <<>>)
         \o (IF profile.cultural_health_beliefs # {}
             THEN << <<"cultural_health_resources">> >> ELSE <<>>)
         \o (IF Truthy(user_income) /\ user_income.v > profile.gdp_per_capita
             THEN << <<"income_above_average_more_choice">> >> ELSE <<>>)

GenerateEconomicRecommendations(user_income, profile) ==
    IF ~profile.found
    THEN IF Truthy(user_income) /\ user_income.v < 5000
         THEN << <<"BULB", "prefer_public_medical_resources">>,
                 <<"BULB", "community_services_free_screening">> >>
         ELSE <<>>
    ELSE (IF profile.public_healthcare_coverage > 80
          THEN << <<"OK", "use_public_insurance_first">> >> ELSE <<>>)
         \o (IF profile.healthcare_accessibility < 60
             THEN << <<"WARN", "plan_medical_needs_ahead">> >> ELSE <<>>)
         \o (IF ~Truthy(user_income) THEN <<>>
             ELSE IF 2 * user_income.v < profile.gdp_per_capita
             THEN << <<"MONEY", "income_low_advice">>, <<"  - ", "use_public_resources">>,
                     <<"  - ", "free_or_cheap_screening">>, <<"  - ", "preventive_care">>,
                     <<"  - ", "community_health_services">> >>
             ELSE IF user_income.v < profile.gdp_per_capita
             THEN << <<"MONEY", "income_middle_advice">>, <<"  - ", "balance_public_private">>,
                     <<"  - ", "supplementary_insurance">>, <<"  - ", "regular_checkups">> >>
             ELSE << <<"MONEY", "income_high_advice">>, <<"  - ", "quality_services">>,
                     <<"  - ", "invest_in_prevention">>, <<"  - ", "private_insurance">> >>)
         \o (IF "traditional_medicine" \in profile.cultural_health_beliefs
             THEN << <<"HERB", "combine_traditional_and_modern">> >> ELSE <<>>)
         \o (IF "preventive_care" \in profile.cultural_health_beliefs
             THEN << <<"SHIELD", "value_preventive_care">> >> ELSE <<>>)
         \o (IF "diabetes" \in profile.common_health_issues
             THEN << <<"WARN", "mind_diabetes_prevention">> >> ELSE <<>>)
         \o (IF "mental_health" \in profile.common_health_issues
             THEN IF Truthy(user_income) /\ user_income.v > profile.gdp_per_capita
                  THEN << <<"BRAIN", "invest_in_mental_health_services">> >>
                  ELSE << <<"BRAIN", "community_or_online_mental_health">> >>
             ELSE <<>>)

\* analyze_economic_health: the six steps inside one try block; an exception
\* leaves the fields not yet assigned at their initial value and sets 'error'.
\* economic_assessment.relative_level is that of its 'income' entry, "" while
\* the entry is missing
AnalyzeEconomicHealth(user_income, country_code, health_concerns) ==
    LET initial == [EmptyDict EXCEPT !.agent_type = "economics_health",
                                     !.economic_assessment = [present |-> TRUE,
                                                              relative_level |-> ""]]
        profile == IF country_code = "" THEN NoProfile ELSE GetCountryProfile(country_code)
        income == AssessIncomeLevel(user_income, profile)
        accessibility == AssessHealthcareAccessibility(user_income, profile)
    IN IF country_code = "<not-a-str>"
       THEN [initial EXCEPT !.error = TRUE]
       ELSE IF user_income.kind = "bad"
       THEN [initial EXCEPT !.error = TRUE]
       ELSE IF Truthy(user_income) /\ profile.found /\ user_income.v < 10000
               /\ health_concerns = "bad"
       THEN [initial EXCEPT !.economic_assessment.relative_level = income.relative_level,
                            !.healthcare_accessibility = accessibility, !.error = TRUE]
       ELSE [initial EXCEPT
               !.economic_assessment.relative_level = income.relative_level,
               !.healthcare_accessibility = accessibility,
               !.barriers = IdentifyEconomicBarriers(user_income, profile, health_concerns),
               !.opportunities = IdentifyOpportunities(user_income, profile),
               !.recommendations = GenerateEconomicRecommendations(user_income, profile)]

\* health_agents.EconomicsHealthAgent.analyze
EconomicsAnalyze(initialized, user_income, country_code, health_concerns) ==
    IF ~initialized
    THEN ErrorDict
    ELSE AnalyzeEconomicHealth(user_income, country_code, health_concerns)

\* ------------------------------------- HealthCoordinator._synthesize_results
Levels == {"low", "medium", "high"}

Rank(status) ==
    IF status = "good" THEN 0 ELSE IF status = "attention_needed" THEN 1 ELSE 2

\* dict.get('risk_level', 'low') on a nested dict that may be {}
GetRiskLevel(d) == IF d.risk_level = "" THEN "low" ELSE d.risk_level

NewSynthesis ==
    [overall_health_status |-> "good", priority |-> <<>>, recommendations |-> <<>>,
     warnings |-> <<>>, insights |-> <<>>]

\* variant: 'high' handled with the guarded raise of the 'medium' branch
SynthMentalHighAsMedium(synthesis, mental_result) ==
    IF ~mental_result.risk_assessment.present
    THEN synthesis
    ELSE LET mental_risk == GetRiskLevel(mental_result.risk_assessment)
         IN IF mental_risk = "high"
            THEN [synthesis EXCEPT
                    !.overall_health_status = IF @ = "good" THEN "attention_needed" ELSE @,
                    !.warnings = Append(@, MentalWarning),
                    !.priority = Append(@, PriorityMental)]
            ELSE IF mental_risk = "medium"
            THEN [synthesis EXCEPT
                    !.overall_health_status = IF @ = "good" THEN "attention_needed" ELSE @,
                    !.recommendations = @ \o mental_result.recommendations]
            ELSE synthesis

SynthMental(synthesis, mental_result) ==
    IF ~mental_result.risk_assessment.present
    THEN synthesis
    ELSE LET mental_risk == GetRiskLevel(mental_result.risk_assessment)
         IN IF mental_risk = "high"
            THEN [synthesis EXCEPT !.overall_health_status = "critical",
                                   !.warnings = Append(@, MentalWarning),
                                   !.priority = Append(@, PriorityMental)]
            ELSE IF mental_risk = "medium"
            THEN [synthesis EXCEPT
                    !.overall_health_status = IF @ = "good" THEN "attention_needed" ELSE @,
                    !.recommendations = @ \o mental_result.recommendations]
            ELSE synthesis

\* variant: 'high' sets 'attention_needed' without looking at the status
SynthPhysicalNoGuard(synthesis, physical_result) ==
    IF ~physical_result.injury_risk.present
    THEN synthesis
    ELSE LET physical_risk == GetRiskLevel(physical_result.injury_risk)
         IN IF physical_risk = "high"
            THEN [synthesis EXCEPT
                    !.overall_health_status = "attention_needed",
                    !.warnings = Append(@, InjuryWarning),
                    !.priority = Append(@, PriorityPhysical),
                    !.recommendations = @ \o physical_result.recommendations]
            ELSE IF physical_risk = "medium"
            THEN [synthesis EXCEPT
                    !.recommendations = @ \o physical_result.recommendations]
            ELSE synthesis

\* variant: 'high' does not take over the physical recommendations
SynthPhysicalHighNoRecs(synthesis, physical_result) ==
    IF ~physical_result.injury_risk.present
    THEN synthesis
    ELSE LET physical_risk == GetRiskLevel(physical_result.injury_risk)
         IN IF physical_risk = "high"
            THEN [synthesis EXCEPT
                    !.overall_health_status = IF @ = "good" THEN "attention_needed" ELSE @,
                    !.warnings = Append(@, InjuryWarning),
                    !.priority = Append(@, PriorityPhysical)]
            ELSE IF physical_risk = "medium"
            THEN [synthesis EXCEPT
                    !.recommendations = @ \o physical_result.recommendations]
            ELSE synthesis

\* variant: 'medium' is entered in the priority list as well
SynthPhysicalMediumPriority(synthesis, physical_result) ==
    IF ~physical_result.injury_risk.present
    THEN synthesis
    ELSE LET physical_risk == GetRiskLevel(physical_result.injury_risk)
         IN IF physical_risk = "high"
            THEN [synthesis EXCEPT
                    !.overall_health_status = IF @ = "good" THEN "attention_needed" ELSE @,
                    !.warnings = Append(@, InjuryWarning),
                    !.priority = Append(@, PriorityPhysical),
                    !.recommendations = @ \o physical_result.recommendations]
            ELSE IF physical_risk = "medium"
            THEN [synthesis EXCEPT
                    !.priority = Append(@, PriorityPhysical),
                    !.recommendations = @ \o physical_result.recommendations]
            ELSE synthesis

\* variant: recommendations already in the list are not added again
SynthPhysicalDeduplicated(synthesis, physical_result) ==
    IF ~physical_result.injury_risk.present
    THEN synthesis
    ELSE LET physical_risk == GetRiskLevel(physical_result.injury_risk)
             fresh == SelectSeq(physical_result.recommendations,
                                LAMBDA rec : \A i \in 1..Len(synthesis.recommendations) :
                                                 synthesis.recommendations[i] # rec)
         IN IF physical_risk = "high"
            THEN [synthesis EXCEPT
                    !.overall_health_status = IF @ = "good" THEN "attention_needed" ELSE @,
                    !.warnings = Append(@, InjuryWarning),
                    !.priority = Append(@, PriorityPhysical),
                    !.recommendations = @ \o fresh]
            ELSE IF physical_risk = "medium"
            THEN [synthesis EXCEPT !.recommendations = @ \o fresh]
            ELSE synthesis

SynthPhysical(synthesis, physical_result) ==
    IF ~physical_result.injury_risk.present
    THEN synthesis
    ELSE LET physical_risk == GetRiskLevel(physical_result.injury_risk)
         IN IF physical_risk = "high"
            THEN [synthesis EXCEPT
                    !.overall_health_status = IF @ = "good" THEN "attention_needed" ELSE @,
                    !.warnings = Append(@, InjuryWarning),
                    !.priority = Append(@, PriorityPhysical),
                    !.recommendations = @ \o physical_result.recommendations]
            ELSE IF physical_risk = "medium"
            THEN [synthesis EXCEPT
                    !.recommendations = @ \o physical_result.recommendations]
            ELSE synthesis

\* f"💰 {rec}" if not rec.startswith('💰') else rec
EconPrefix(rec) ==
    IF rec # <<>> /\ Head(rec) = "MONEY" THEN rec ELSE <<"MONEY", " ">> \o rec

\* econ_recs: the list comprehension over economics_result['recommendations']
EconRecs(recommendations) ==
    [i \in 1..Len(recommendations) |-> EconPrefix(recommendations[i])]

ScoreBelowHalf(accessibility) ==
    accessibility.has_score /\ 2 * accessibility.num < accessibility.den

ScoreAboveSevenTenths(accessibility) ==
    accessibility.has_score /\ 10 * accessibility.num > 7 * accessibility.den

\* variant: the barrier warning is appended without the length test
SynthEconomicAlwaysWarns(synthesis, economics_result) ==
    IF ~economics_result.economic_assessment.present
    THEN synthesis
    ELSE LET barriers == economics_result.barriers
             s1 == [synthesis EXCEPT !.warnings = Append(@, BarrierWarning),
                                     !.insights = @ \o Prefix(barriers, 2)]
             s2 == [s1 EXCEPT !.recommendations =
                                  @ \o EconRecs(economics_result.recommendations)]
             accessibility == economics_result.healthcare_accessibility
         IN IF ScoreBelowHalf(accessibility)
            THEN [s2 EXCEPT !.warnings = Append(@, AccessibilityWarning)]
            ELSE IF ScoreAboveSevenTenths(accessibility)
            THEN [s2 EXCEPT !.insights = Append(@, AccessibilityInsight)]
            ELSE s2

\* variant: economic barriers raise a 'good' status like a 'medium' risk does
SynthEconomicEscalates(synthesis, economics_result) ==
    IF ~economics_result.economic_assessment.present
    THEN synthesis
    ELSE LET barriers == economics_result.barriers
             s1 == IF Len(barriers) > 0
                   THEN [synthesis EXCEPT
                           !.overall_health_status =
                               IF @ = "good" THEN "attention_needed" ELSE @,
                           !.warnings = Append(@, BarrierWarning),
                           !.insights = @ \o Prefix(barriers, 2)]
                   ELSE synthesis
             s2 == [s1 EXCEPT !.recommendations =
                                  @ \o EconRecs(economics_result.recommendations)]
             accessibility == economics_result.healthcare_accessibility
         IN IF ScoreBelowHalf(accessibility)
            THEN [s2 EXCEPT !.warnings = Append(@, AccessibilityWarning)]
            ELSE IF ScoreAboveSevenTenths(accessibility)
            THEN [s2 EXCEPT !.insights = Append(@, AccessibilityInsight)]
            ELSE s2

\* variant: one barrier warning for each barrier
SynthEconomicWarnsEachBarrier(synthesis, economics_result) ==
    IF ~economics_result.economic_assessment.present
    THEN synthesis
    ELSE LET barriers == economics_result.barriers
             s1 == [synthesis EXCEPT
                      !.warnings = @ \o [i \in 1..Len(barriers) |-> BarrierWarning],
                      !.insights = @ \o Prefix(barriers, 2)]
             s2 == [s1 EXCEPT !.recommendations =
                                  @ \o EconRecs(economics_result.recommendations)]
             accessibility == economics_result.healthcare_accessibility
         IN IF ScoreBelowHalf(accessibility)
            THEN [s2 EXCEPT !.warnings = Append(@, AccessibilityWarning)]
            ELSE IF ScoreAboveSevenTenths(accessibility)
            THEN [s2 EXCEPT !.insights = Append(@, AccessibilityInsight)]
            ELSE s2

SynthEconomic(synthesis, economics_result) ==
    IF ~economics_result.economic_assessment.present
    THEN synthesis
    ELSE LET barriers == economics_result.barriers
             s1 == IF Len(barriers) > 0
                   THEN [synthesis EXCEPT !.warnings = Append(@, BarrierWarning),
                                          !.insights = @ \o Prefix(barriers, 2)]
                   ELSE synthesis
             s2 == [s1 EXCEPT !.recommendations =
                                  @ \o EconRecs(economics_result.recommendations)]
             accessibility == economics_result.healthcare_accessibility
         IN IF ScoreBelowHalf(accessibility)
            THEN [s2 EXCEPT !.warnings = Append(@, AccessibilityWarning)]
            ELSE IF ScoreAboveSevenTenths(accessibility)
            THEN [s2 EXCEPT !.insights = Append(@, AccessibilityInsight)]
            ELSE s2

\* variant: one insight for each memory hit
SynthMemoryInsightPerHit(synthesis, memories) ==
    [synthesis EXCEPT !.insights = @ \o [i \in 1..Len(memories) |-> MemoryInsight(1)]]

SynthMemory(synthesis, memories) ==
    IF Len(memories) > 0
    THEN [synthesis EXCEPT !.insights = Append(@, MemoryInsight(Len(memories)))]
    ELSE synthesis

\* variant: no urgent-referral message, 'critical' closes like 'attention_needed'
ClosingForNoUrgent(status) ==
    IF status = "good" THEN ClosingGood ELSE ClosingAttention

ClosingFor(status) ==
    IF status = "good" THEN ClosingGood
    ELSE IF status = "attention_needed" THEN ClosingAttention
    ELSE ClosingCritical

SynthClosing(synthesis) ==
    [synthesis EXCEPT !.recommendations = Append(@, ClosingFor(synthesis.overall_health_status))]

\* variant: the verdict takes over the mental result's list object instead
\* of starting from a list of its own, so later appends show in the argument
InputsAliased(inputs, synthesis) ==
    [inputs EXCEPT !.mental.recommendations = synthesis.recommendations]

\* the four arguments once a section has filled `synthesis`: append and
\* extend copy into the verdict's own lists, barriers[:2] is a copy
InputsAfter(inputs, synthesis) == inputs

SynthesizeResults(mental_result, physical_result, economics_result, memories) ==
    SynthClosing(
        SynthMemory(
            SynthEconomic(
                SynthPhysical(
                    SynthMental(NewSynthesis, mental_result),
                    physical_result),
                economics_result),
            memories))

\* ------------------------------------------------------- HealthMemoryAgent
\* str.lower() on the message tokens the model uses
LowerToken(tok) == IF tok = "Knee" THEN "knee" ELSE tok

Lower(text) == [i \in 1..Len(text) |-> LowerToken(text[i])]

\* Python's `q in m` on two strings
IsSubstring(q, m) ==
    \E i \in 1..(Len(m) + 1) :
        i + Len(q) - 1 <= Len(m) /\ SubSeq(m, i, i + Len(q) - 1) = q

TurnMatches(query, turn) ==
    \/ IsSubstring(Lower(query), Lower(turn.user_message))
    \/ IsSubstring(Lower(query), Lower(turn.agent_response))

RECURSIVE CollectMemories(_, _)
CollectMemories(query, sess) ==
    IF sess = <<>> THEN <<>>
    ELSE SelectSeq(Suffix(Head(sess), 3), LAMBDA turn : TurnMatches(query, turn))
         \o CollectMemories(query, Tail(sess))

\* variant: every matching turn is returned, without the cut at top_k
RetrieveAllMatches(mem_initialized, memory_fails, sess, query, top_k) ==
    IF ~mem_initialized \/ memory_fails \/ query = NotAString THEN <<>>
    ELSE CollectMemories(query, Prefix(sess, top_k))

\* memory_fails: the memory system raises inside the try block
RetrieveRelevantMemories(mem_initialized, memory_fails, sess, query, top_k) ==
    IF ~mem_initialized THEN <<>>
    ELSE IF memory_fails THEN <<>>
    ELSE LET recent == Prefix(sess, top_k)
             has_turn == \E i \in 1..Len(recent) : recent[i] # <<>>
         IN IF query = NotAString
            THEN <<>>   \* query.lower() raises at the first turn, or no turn at all
            ELSE IF ~has_turn THEN <<>>
            ELSE Prefix(CollectMemories(query, recent), top_k)

\* the turn store_experience builds from the coordinator's result dict, which
\* has no 'analysis' and no 'risk_assessment' key at its top level
ExperienceTurn(message) ==
    [user_message |-> message, agent_response |-> <<>>, risk_level |-> "None"]

\* the sessions after store_experience saved the turn: appended to the most
\* recent session, or to a new one
\* variant: every experience opens a session of its own
StoreExperienceNewSession(sess, message) == << <<ExperienceTurn(message)>> >> \o sess

StoreExperience(sess, message) ==
    IF sess = <<>>
    THEN << <<ExperienceTurn(message)>> >>
    ELSE << Append(Head(sess), ExperienceTurn(message)) >> \o Tail(sess)

\* variant: an id is handed back although nothing was stored
StoreExperienceCallAlwaysId(mem_initialized, store_fails, sess, message) ==
    [sessions |-> IF mem_initialized /\ ~store_fails
                  THEN StoreExperience(sess, message) ELSE sess,
     id |-> "session_id",
     saves |-> IF mem_initialized /\ ~store_fails THEN 1 ELSE 0]

\* store_experience: the sessions afterwards and the value returned, the
\* session id or None ("") when the agent is not initialized or the memory
\* system raised inside the try block before the session was saved, and the
\* calls of save_session made
StoreExperienceCall(mem_initialized, store_fails, sess, message) ==
    IF mem_initialized /\ ~store_fails
    THEN [sessions |-> StoreExperience(sess, message), id |-> "session_id", saves |-> 1]
    ELSE [sessions |-> sess, id |-> "", saves |-> 0]

\* ------------------------------------------------------ ConversationManager
HighRiskKeywords == {"suicide", "self-harm"}

\* _quick_risk_check: "raise", or the 'risk_level' of the dict it returns.
\* detector: what CrisisDetector.assess_risk does for a message with a keyword
\* ("" stands for a dict without 'risk_level', which process_message indexes)
QuickRiskCheck(message, detector) ==
    IF message = NotAString THEN "raise"
    ELSE IF \E i \in 1..Len(message) : message[i] \in HighRiskKeywords
    THEN (IF detector = "" THEN "raise" ELSE detector)
    ELSE "low"

\* the manager before it is built, and after ConversationManager.__init__:
\* a new Session without turns.  handled: the calls of process_message that
\* returned; saved_turns: the turns the session had when it was last saved
NoConversation ==
    [built |-> FALSE, turns |-> <<>>, handled |-> 0, saved_turns |-> 0,
     intervention_mode |-> "None", handler |-> ""]

NewConversation == [NoConversation EXCEPT !.built = TRUE]

\* variant: the session is saved after every turn
SaveDueEveryTurn(turn_count) == TRUE

\* `len(self.session.turns) % 5 == 0`
SaveDue(turn_count) == turn_count % 5 = 0

HandlerFor(level) == IF level = "high" THEN "crisis" ELSE "therapeutic"

\* process_message on the manager conv: the manager afterwards and the calls
\* of save_session made.  llm_raises: the text generation raises
ConversationProcessMessage(conv, message, quick, llm_raises) ==
    IF quick = "raise" \/ llm_raises
    THEN [conversation |-> conv, saves |-> 0]
    ELSE LET handler == HandlerFor(quick)
             turn == [user_message |-> message, agent_response |-> <<handler>>,
                      risk_level |-> quick]
             turns == Append(conv.turns, turn)
             save == SaveDue(Len(turns))
         IN [conversation |->
                 [conv EXCEPT
                     !.turns = turns,
                     !.handled = @ + 1,
                     !.saved_turns = IF save THEN Len(turns) ELSE @,
                     !.intervention_mode = IF handler = "crisis" THEN "crisis" ELSE @,
                     !.handler = handler],
             saves |-> IF save THEN 1 ELSE 0]

\* variant: the mental agent keeps one manager, which already holds four turns
ManagerKept(message) ==
    [NewConversation EXCEPT
        !.turns = [i \in 1..4 |-> [user_message |-> message,
                                   agent_response |-> <<"therapeutic">>,
                                   risk_level |-> "low"]],
        !.handled = 4]

\* MentalHealthAgent.analyze, 88: `self.conversation_manager(user_id=user_id)`
\* builds a new manager for the call
ManagerBuilt(message) == NewConversation

\* the manager after step 2 of MentalHealthAgent.analyze and the calls of
\* save_session it made; the step is reached when the agent is initialized
\* and the crisis detection returned
MentalConversation(mental_initialized, crisis, message, llm_raises) ==
    IF ~mental_initialized \/ crisis = "raise"
    THEN [conversation |-> NoConversation, saves |-> 0]
    ELSE ConversationProcessMessage(ManagerBuilt(message), message,
                                    QuickRiskCheck(message, crisis), llm_raises)

\* ================================================================== state
VARIABLES
    pc,                 \* position of the call in process_message / _synthesize_results
    entry,              \* "process_message" or "_synthesize_results" (called directly)
    initialized,        \* the `initialized` flag of each agent, set by the constructors
    request,            \* message and context of the call
    sessions,           \* the memory system: the user's sessions, most recent first
    relevant_memories,  \* local of process_message
    tasks,              \* the three awaitables handed to asyncio.gather
    completion,         \* the order in which the gathered tasks finished (history,
                        \* dropped once the verdict is handed to the memory agent)
    agents,             \* result['agents']
    synth_in,           \* arguments of _synthesize_results
    synthesis,          \* local `synthesis` of _synthesize_results
    retrieve_calls,     \* calls of retrieve_relevant_memories made by this call
    store_calls,        \* calls of store_experience made by this call
    memory_id,          \* result.get('memory_id'): "" when absent
    other_sessions,     \* the memory system: the sessions of another user
    save_calls,         \* calls of save_session so far, by caller (history)
    conversation,       \* the ConversationManager: the one the mental agent built
                        \* for its call, or the one process_message is called on
    inflight,           \* two process_message calls in flight on one event loop
    direct              \* an assessor function called directly: arguments, result

vars == <<pc, entry, initialized, request, sessions, relevant_memories, tasks,
          completion, agents, synth_in, synthesis, retrieve_calls, store_calls,
          memory_id, other_sessions, save_calls, conversation, inflight, direct>>

Assessors == {"mental", "physical", "economics"}

\* ----------------------------------------------------------------- inputs
Messages == {<<"stressed">>, <<"knee", "pain">>, NotAString}

StoredTurn ==
    [user_message |-> <<"my", "Knee", "pain", "again">>, agent_response |-> <<>>,
     risk_level |-> "None"]

SportsMedium ==
    [kind |-> "dict", recent_injury |-> TRUE, training_load |-> 70,
     match_intensity |-> 0, games_played |-> 10, age |-> 25,
     has_recovery |-> FALSE, recovery_days |-> 0]

SportsHigh ==
    [kind |-> "dict", recent_injury |-> TRUE, training_load |-> 90,
     match_intensity |-> 90, games_played |-> 25, age |-> 35,
     has_recovery |-> TRUE, recovery_days |-> 1]

SportsInputs == {NoSportsData, MalformedSportsData, SportsMedium, SportsHigh}

Incomes == {NoIncome, Income(5000), Income(40000)}

Countries == {"", "us"}

Concerns == {"none", "bad"}

CrisisOutcomes == {"raise", "", "low", "medium", "high"}

ConversationOutcomes == {"ok", "raise"}

\* a task: its state, and once done whether it raised or the dict it returned
NoTask == [state |-> "new", raised |-> FALSE, value |-> EmptyDict]

NoTasks == [mental |-> NoTask, physical |-> NoTask, economics |-> NoTask]

NoRequest ==
    [message |-> <<>>, sports_data |-> NoSportsData, user_income |-> NoIncome,
     country_code |-> "", health_concerns |-> "none"]

\* result['agents']: `keys` are the keys of the dict in insertion order, the
\* other fields the values stored under them
NoAgents ==
    [keys |-> <<>>,
     memory |-> [relevant_memories_count |-> 0, memories |-> <<>>],
     mental_health |-> EmptyDict, physical_health |-> EmptyDict,
     economics_health |-> EmptyDict]

\* the keys of a dict after d[key] = ...
SetItem(keys, key) ==
    IF \E i \in 1..Len(keys) : keys[i] = key THEN keys ELSE Append(keys, key)

NoSynthIn ==
    [mental |-> EmptyDict, physical |-> EmptyDict, economics |-> EmptyDict,
     memories |-> <<>>]

\* the sessions another user has in the memory system
OtherSessions == << <<[user_message |-> <<"cannot", "sleep">>, agent_response |-> <<>>,
                      risk_level |-> "None"]>> >>

NoSaveCalls == [conversation |-> 0, store |-> 0]

\* a call in flight: its position, its arguments, what it read and computed
NoCall ==
    [pc |-> "new", message |-> <<>>, crisis |-> "low", read_sessions |-> <<>>,
     relevant_memories |-> <<>>, synthesis |-> NewSynthesis, memory_id |-> ""]

NoCalls == [c \in 1..2 |-> NoCall]

\* an assessor function called on its own: fn names it, then its arguments,
\* whether it raised, and its result in the field of its kind
NoDirect ==
    [fn |-> "", sports_data |-> NoSportsData, message |-> <<>>, user_income |-> NoIncome,
     country_code |-> "", health_concerns |-> "none", raised |-> FALSE,
     prediction |-> PredictRisk(MalformedSportsData), analysis |-> EmptyDict]

\* the constructors' outcome: every agent initialized, or one of them not
InitializedChoices ==
    {[a \in Assessors \cup {"memory"} |-> a # failed] :
        failed \in Assessors \cup {"memory", "nobody"}}

\* the memory system before the call: no session of the user yet, or
\* MaxSessions of them
InitialSessions ==
    {[i \in 1..n |-> [j \in 1..MaxTurns |-> StoredTurn]] : n \in {0, MaxSessions}}

Init ==
    /\ pc = "idle"
    /\ entry = ""
    /\ initialized \in InitializedChoices
    /\ request = NoRequest
    /\ sessions \in InitialSessions
    /\ relevant_memories = <<>>
    /\ tasks = NoTasks
    /\ completion = <<>>
    /\ agents = NoAgents
    /\ synth_in = NoSynthIn
    /\ synthesis = NewSynthesis
    /\ retrieve_calls = 0
    /\ store_calls = 0
    /\ memory_id = ""
    /\ other_sessions = OtherSessions
    /\ save_calls = NoSaveCalls
    /\ conversation = NoConversation
    /\ inflight = NoCalls
    /\ direct = NoDirect

\* ------------------------------------------------ process_message, 48 - 54
ProcessMessage ==
    /\ pc = "idle"
    /\ \E message \in Messages, sports_data \in SportsInputs, user_income \in Incomes,
          country_code \in Countries, health_concerns \in Concerns :
          request' = [message |-> message, sports_data |-> sports_data,
                      user_income |-> user_income, country_code |-> country_code,
                      health_concerns |-> health_concerns]
    /\ entry' = "process_message"
    /\ pc' = "retrieve"
    /\ UNCHANGED <<initialized, sessions, relevant_memories, tasks, completion, agents,
                   synth_in, synthesis, retrieve_calls, store_calls, memory_id,
                   other_sessions, save_calls, conversation, inflight, direct>>

\* process_message, 56 - 65
RetrieveMemories ==
    /\ pc = "retrieve"
    /\ \E memory_fails \in BOOLEAN :
          relevant_memories' =
              RetrieveRelevantMemories(initialized["memory"], memory_fails, sessions,
                                       request.message, TopK)
    /\ agents' = [agents EXCEPT
                     !.keys = SetItem(@, "memory"),
                     !.memory = [relevant_memories_count |-> Len(relevant_memories'),
                                 memories |-> Prefix(relevant_memories', 3)]]
    /\ retrieve_calls' = retrieve_calls + 1
    /\ pc' = "gather"
    /\ UNCHANGED <<entry, initialized, request, sessions, tasks, completion, synth_in,
                   synthesis, store_calls, memory_id,
                   other_sessions, save_calls, conversation, inflight, direct>>

\* process_message, 67 - 93: the three awaitables are created and handed to
\* asyncio.gather, which schedules all of them
Gather ==
    /\ pc = "gather"
    /\ tasks' = [mental |-> [tasks.mental EXCEPT !.state = "running"],
                 physical |-> [tasks.physical EXCEPT !.state = "running"],
                 economics |-> [tasks.economics EXCEPT !.state = "running"]]
    /\ pc' = "await"
    /\ UNCHANGED <<entry, initialized, request, sessions, relevant_memories, completion,
                   agents, synth_in, synthesis, retrieve_calls, store_calls, memory_id,
                   other_sessions, save_calls, conversation, inflight, direct>>

Finish(a, raised, value) ==
    /\ pc = "await"
    /\ tasks[a].state = "running"
    /\ tasks' = [tasks EXCEPT ![a] = [state |-> "done", raised |-> raised,
                                      value |-> IF raised THEN EmptyDict ELSE value]]
    /\ completion' = Append(completion, a)
    /\ UNCHANGED <<pc, entry, initialized, request, sessions, relevant_memories, agents,
                   synth_in, synthesis, retrieve_calls, store_calls, memory_id,
                   other_sessions, inflight, direct>>

\* the mental coroutine runs to its end, or raises
MentalTask ==
    \E raised \in BOOLEAN, crisis \in CrisisOutcomes, outcome \in ConversationOutcomes :
        LET called == MentalConversation(initialized["mental"], crisis, request.message,
                                         outcome = "raise")
        IN /\ Finish("mental", raised, MentalAnalyze(initialized["mental"], crisis, outcome))
           /\ conversation' = called.conversation
           /\ save_calls' = [save_calls EXCEPT !.conversation = @ + called.saves]

\* the physical thread runs to its end, or raises
PhysicalTask ==
    \E raised \in BOOLEAN :
        /\ Finish("physical", raised,
                  PhysicalAnalyze(initialized["physical"], request.message,
                                  request.sports_data))
        /\ UNCHANGED <<save_calls, conversation>>

\* the economics thread runs to its end, or raises
EconomicsTask ==
    \E raised \in BOOLEAN :
        /\ Finish("economics", raised,
                  EconomicsAnalyze(initialized["economics"], request.user_income,
                                   request.country_code, request.health_concerns))
        /\ UNCHANGED <<save_calls, conversation>>

\* variant: results handed out in completion order, as asyncio.as_completed does
GatherByCompletion(done_tasks, order, position) == done_tasks[order[position]]

\* the positional result of gather(..., return_exceptions=True) for one task
GatherResult(done_tasks, order, position) ==
    IF position = 1 THEN done_tasks.mental
    ELSE IF position = 2 THEN done_tasks.physical
    ELSE done_tasks.economics

\* variant: the failure of an assessor is recorded without its description
AgentEntryNoMarker(gathered) == gathered.value

\* what process_message stores under result['agents'] for a gathered result
AgentEntry(gathered) == IF gathered.raised THEN ErrorDict ELSE gathered.value

\* variant: an assessor that raised is assumed to be at high risk
SynthArgFailHigh(gathered) ==
    IF gathered.raised
    THEN [EmptyDict EXCEPT
            !.risk_assessment = [present |-> TRUE, risk_level |-> "high"],
            !.injury_risk = [present |-> TRUE, risk_level |-> "high",
                             risk_score |-> D_0_0]]
    ELSE gathered.value

\* what process_message hands to _synthesize_results for a gathered result
SynthArg(gathered) == IF gathered.raised THEN EmptyDict ELSE gathered.value

JoinBody ==
    LET mental_result == GatherResult(tasks, completion, 1)
        physical_result == GatherResult(tasks, completion, 2)
        economics_result == GatherResult(tasks, completion, 3)
    IN /\ agents' = [agents EXCEPT
                        !.keys = SetItem(SetItem(SetItem(@, "mental_health"),
                                                 "physical_health"), "economics_health"),
                        !.mental_health = AgentEntry(mental_result),
                        !.physical_health = AgentEntry(physical_result),
                        !.economics_health = AgentEntry(economics_result)]
       /\ synth_in' = [mental |-> SynthArg(mental_result),
                       physical |-> SynthArg(physical_result),
                       economics |-> SynthArg(economics_result),
                       memories |-> relevant_memories]
       /\ pc' = "synthesize"
       /\ UNCHANGED <<entry, initialized, request, sessions, relevant_memories, tasks,
                      completion, synthesis, retrieve_calls, store_calls, memory_id,
                   other_sessions, save_calls, conversation, inflight, direct>>

\* variant: the coordinator goes on as soon as the first task is done
JoinFirstCompleted ==
    /\ pc = "await"
    /\ \E a \in Assessors : tasks[a].state = "done"
    /\ JoinBody

\* process_message, 87 - 112: gather returns once the three tasks are done
\* and the results are recorded; 116 - 119: the arguments of the synthesis
Join ==
    /\ pc = "await"
    /\ \A a \in Assessors : tasks[a].state = "done"
    /\ JoinBody

\* process_message, 115: the call of _synthesize_results
Synthesize ==
    /\ pc = "synthesize"
    /\ synthesis' = SynthesizeResults(synth_in.mental, synth_in.physical,
                                      synth_in.economics, synth_in.memories)
    /\ synth_in' = InputsAfter(synth_in, synthesis')
    /\ pc' = "store"
    /\ UNCHANGED <<entry, initialized, request, sessions, relevant_memories, tasks,
                   completion, agents, retrieve_calls, store_calls, memory_id,
                   other_sessions, save_calls, conversation, inflight, direct>>

\* ------------------------------------ _synthesize_results called directly
DirectLevels == {[present |-> FALSE, risk_level |-> ""]}
                \cup {[present |-> TRUE, risk_level |-> lv] : lv \in Levels \cup {""}}

MentalDicts ==
    {[EmptyDict EXCEPT !.agent_type = "mental_health", !.risk_assessment = ra,
                       !.recommendations = << <<"same_advice">> >>, !.error = er] :
        ra \in DirectLevels, er \in BOOLEAN}

PhysicalDicts ==
    {[EmptyDict EXCEPT !.agent_type = "physical_health",
                       !.injury_risk = [present |-> ir.present,
                                        risk_level |-> ir.risk_level,
                                        risk_score |-> D_0_0],
                       !.recommendations = << <<"same_advice">>, <<"rest">> >>,
                       !.error = er] :
        ir \in DirectLevels, er \in BOOLEAN}

Scores ==
    {EmptyAccessibility} \cup {[has_score |-> TRUE, num |-> n, den |-> 10] : n \in {4, 5, 7, 8}}

BarrierLists ==
    {<<>>, << <<"barrier_1">> >>, << <<"barrier_1">>, <<"barrier_2">>, <<"barrier_3">> >>}

EconomicsDicts ==
    {[EmptyDict EXCEPT !.agent_type = "economics_health",
                       !.economic_assessment = [present |-> pr, relative_level |-> ""],
                       !.healthcare_accessibility = sc,
                       !.recommendations = rc, !.barriers = br] :
        pr \in BOOLEAN, sc \in Scores, br \in BarrierLists,
        rc \in {<<>>, << <<"MONEY", "already_marked">>, <<"same_advice">> >>}}

MemoryHit == [user_message |-> <<"knee", "pain">>, agent_response |-> <<>>, risk_level |-> "None"]

MemoryLists == {[i \in 1..n |-> MemoryHit] : n \in 0..MaxHits}

SynthesizeDirect ==
    /\ pc = "idle"
    /\ \E m \in MentalDicts, p \in PhysicalDicts, e \in EconomicsDicts, h \in MemoryLists :
          synth_in' = [mental |-> m, physical |-> p, economics |-> e, memories |-> h]
    /\ entry' = "_synthesize_results"
    /\ synthesis' = NewSynthesis
    /\ pc' = "s_mental"
    /\ UNCHANGED <<initialized, request, sessions, relevant_memories, tasks, completion,
                   agents, retrieve_calls, store_calls, memory_id,
                   other_sessions, save_calls, conversation, inflight, direct>>

DirectInit ==
    /\ pc = "idle"
    /\ entry = ""
    /\ initialized = [a \in Assessors \cup {"memory"} |-> TRUE]
    /\ request = NoRequest
    /\ sessions = <<>>
    /\ relevant_memories = <<>>
    /\ tasks = NoTasks
    /\ completion = <<>>
    /\ agents = NoAgents
    /\ synth_in = NoSynthIn
    /\ synthesis = NewSynthesis
    /\ retrieve_calls = 0
    /\ store_calls = 0
    /\ memory_id = ""
    /\ other_sessions = OtherSessions
    /\ save_calls = NoSaveCalls
    /\ conversation = NoConversation
    /\ inflight = NoCalls
    /\ direct = NoDirect

\* --------------------- _synthesize_results, 161 - 223, one section at a time
SynthStep(from, to, next_synthesis) ==
    /\ pc = from
    /\ synthesis' = next_synthesis
    /\ synth_in' = InputsAfter(synth_in, next_synthesis)
    /\ pc' = to
    /\ UNCHANGED <<entry, initialized, request, sessions, relevant_memories, tasks,
                   completion, agents, retrieve_calls, store_calls, memory_id,
                   other_sessions, save_calls, conversation, inflight, direct>>

MentalStep == SynthStep("s_mental", "s_physical", SynthMental(synthesis, synth_in.mental))

PhysicalStep == SynthStep("s_physical", "s_economic", SynthPhysical(synthesis, synth_in.physical))

EconomicStep == SynthStep("s_economic", "s_memory", SynthEconomic(synthesis, synth_in.economics))

MemoryStep == SynthStep("s_memory", "s_closing", SynthMemory(synthesis, synth_in.memories))

ClosingStep == SynthStep("s_closing", "done", SynthClosing(synthesis))

\* ----------------------------------------------- process_message, 122 - 130
\* store_fails: the memory system raises inside store_experience's try block
Store ==
    /\ pc = "store"
    /\ \E store_fails \in BOOLEAN :
          LET stored == StoreExperienceCall(initialized["memory"], store_fails,
                                            sessions, request.message)
          IN /\ sessions' = stored.sessions
             /\ memory_id' = stored.id   \* `if memory_id:` keeps None out of the result
             /\ save_calls' = [save_calls EXCEPT !.store = @ + stored.saves]
    /\ store_calls' = store_calls + 1
    /\ completion' = <<>>
    /\ pc' = "return"
    /\ UNCHANGED <<entry, initialized, request, relevant_memories, tasks, agents,
                   synth_in, synthesis, retrieve_calls,
                   other_sessions, conversation, inflight, direct>>

\* process_message, 132
Return ==
    /\ pc = "return"
    /\ pc' = "done"
    /\ UNCHANGED <<entry, initialized, request, sessions, relevant_memories, tasks,
                   completion, agents, synth_in, synthesis, retrieve_calls, store_calls, memory_id,
                   other_sessions, save_calls, conversation, inflight, direct>>

Next ==
    \/ ProcessMessage
    \/ RetrieveMemories
    \/ Gather
    \/ MentalTask
    \/ PhysicalTask
    \/ EconomicsTask
    \/ Join
    \/ Synthesize
    \/ Store
    \/ Return

Spec == Init /\ [][Next]_vars

\* a coordinator whose four constructors succeeded
LiveInit == Init /\ \A a \in Assessors \cup {"memory"} : initialized[a]

\* the scheduling of the event loop and of the thread pool: every enabled
\* step of the call is eventually taken
LiveSpec == LiveInit /\ [][Next]_vars /\ WF_vars(Next)

\* _synthesize_results called on its own, on any well-formed result dicts
DirectNext ==
    \/ SynthesizeDirect
    \/ MentalStep
    \/ PhysicalStep
    \/ EconomicStep
    \/ MemoryStep
    \/ ClosingStep

SynthSpec == DirectInit /\ [][DirectNext]_vars

\* --------------------------------------- the assessors' functions on their own
\* one call of one function on a fresh agent
\* sports_data dicts on both sides of every threshold of the rules
DirectSportsData ==
    {[kind |-> "dict", recent_injury |-> ri, training_load |-> tl, match_intensity |-> mi,
      games_played |-> gp, age |-> ag, has_recovery |-> rd # 0, recovery_days |-> rd] :
        ri \in BOOLEAN, tl \in {50, 70, 90}, mi \in {50, 70, 90}, gp \in {10, 25},
        ag \in {25, 35}, rd \in {0, 1, 3}}

DirectIncomes ==
    {NoIncome, Income(0), Income(3000), Income(5000), Income(9000), Income(40000),
     Income(70000), Income(130000), BadIncome}

DirectCountries == {"", "us", "CN", "IN", "BR", "XX"}

DirectConcerns == {"none", "mental", "other"}

OtherFunctionVars ==
    <<pc, entry, initialized, request, sessions, relevant_memories, tasks, completion,
      agents, synth_in, synthesis, retrieve_calls, store_calls, memory_id, other_sessions,
      save_calls, conversation, inflight>>

\* InjuryRiskPredictor._predict_with_rules(sports_data)
CallPredictWithRules ==
    /\ direct.fn = ""
    /\ \E sd \in DirectSportsData :
          direct' = [NoDirect EXCEPT !.fn = "_predict_with_rules", !.sports_data = sd,
                                     !.prediction = PredictWithRules(sd)]
    /\ UNCHANGED OtherFunctionVars

\* PhysicalHealthAgent.analyze(message, user_id, sports_data)
CallPhysicalAnalyze ==
    /\ direct.fn = ""
    /\ \E sd \in DirectSportsData \cup {NoSportsData, MalformedSportsData},
          message \in Messages :
          direct' = [NoDirect EXCEPT !.fn = "PhysicalHealthAgent.analyze",
                                     !.sports_data = sd, !.message = message,
                                     !.analysis = PhysicalAnalyze(TRUE, message, sd)]
    /\ UNCHANGED OtherFunctionVars

\* health_agents.EconomicsHealthAgent.analyze(user_income, country_code,
\* health_concerns, context), which never raises
CallEconomicsAnalyze ==
    /\ direct.fn = ""
    /\ \E user_income \in DirectIncomes, country_code \in DirectCountries,
          health_concerns \in DirectConcerns :
          direct' = [NoDirect EXCEPT
                        !.fn = "EconomicsHealthAgent.analyze", !.user_income = user_income,
                        !.country_code = country_code, !.health_concerns = health_concerns,
                        !.analysis = EconomicsAnalyze(TRUE, user_income, country_code,
                                                      health_concerns)]
    /\ UNCHANGED OtherFunctionVars

AssessorNext ==
    \/ CallPredictWithRules
    \/ CallPhysicalAnalyze
    \/ CallEconomicsAnalyze

AssessorSpec == DirectInit /\ [][AssessorNext]_vars

\* ----------------------- two process_message calls in flight on one event loop
\* variant: the turn is appended to the sessions the call read at its start
StoreBaseAtRetrieval(current, read_at_start) == read_at_start

\* store_experience, 319: the session is fetched from the memory system when
\* the experience is stored
StoreBase(current, read_at_start) == current

\* the verdict of a call whose context is None, from its own results
CallVerdict(message, crisis, memories) ==
    SynthesizeResults(MentalAnalyze(TRUE, crisis, "ok"),
                      PhysicalAnalyze(TRUE, message, NoSportsData),
                      EconomicsAnalyze(TRUE, NoIncome, "", "none"),
                      memories)

ConcurrentInit ==
    /\ pc = "idle"
    /\ entry = ""
    /\ initialized = [a \in Assessors \cup {"memory"} |-> TRUE]
    /\ request = NoRequest
    /\ sessions \in InitialSessions
    /\ relevant_memories = <<>>
    /\ tasks = NoTasks
    /\ completion = <<>>
    /\ agents = NoAgents
    /\ synth_in = NoSynthIn
    /\ synthesis = NewSynthesis
    /\ retrieve_calls = 0
    /\ store_calls = 0
    /\ memory_id = ""
    /\ other_sessions = OtherSessions
    /\ save_calls = NoSaveCalls
    /\ conversation = NoConversation
    /\ inflight = NoCalls
    /\ direct = NoDirect

OtherCallVars ==
    <<pc, entry, initialized, request, relevant_memories, tasks, completion, agents,
      synth_in, synthesis, retrieve_calls, store_calls, memory_id, other_sessions,
      conversation, direct>>

\* process_message, 48 - 93: the call runs without suspension from its start
\* to `await asyncio.gather(...)`; it reads the memory on the way
CallBegin(c) ==
    /\ inflight[c].pc = "new"
    /\ \E message \in {<<"stressed">>, <<"knee", "pain">>}, memory_fails \in BOOLEAN :
          inflight' = [inflight EXCEPT
              ![c] = [@ EXCEPT
                  !.pc = "awaiting",
                  !.message = message,
                  !.read_sessions = sessions,
                  !.relevant_memories =
                      RetrieveRelevantMemories(initialized["memory"], memory_fails,
                                               sessions, message, TopK)]]
    /\ UNCHANGED <<sessions, save_calls>>
    /\ UNCHANGED OtherCallVars

\* process_message, 95 - 132: once its three tasks are done the call runs
\* without suspension to its return: it records the results, builds its
\* verdict and stores the experience (store_experience is a plain function)
CallResume(c) ==
    /\ inflight[c].pc = "awaiting"
    /\ \E crisis \in Levels, store_fails \in BOOLEAN :
          LET call == inflight[c]
              stored == StoreExperienceCall(initialized["memory"], store_fails,
                                            StoreBase(sessions, call.read_sessions),
                                            call.message)
          IN /\ inflight' = [inflight EXCEPT
                    ![c] = [@ EXCEPT
                        !.pc = "done",
                        !.crisis = crisis,
                        !.synthesis = CallVerdict(call.message, crisis,
                                                  call.relevant_memories),
                        !.memory_id = stored.id]]
             /\ sessions' = stored.sessions
             /\ save_calls' = [save_calls EXCEPT !.store = @ + stored.saves]
    /\ UNCHANGED OtherCallVars

ConcurrentNext == \E c \in 1..2 : CallBegin(c) \/ CallResume(c)

ConcurrentSpec == ConcurrentInit /\ [][ConcurrentNext]_vars

\* ------------------------------ ConversationManager.process_message on its own
\* a message without and one with a high-risk keyword
ConversationMessages == {<<"stressed">>, <<"suicide">>}

\* what CrisisDetector.assess_risk does for the message with the keyword
DetectorOutcomes == {"raise", "medium", "high"}

\* a manager just built, nothing else going on
ConversationInit ==
    /\ pc = "idle"
    /\ entry = ""
    /\ initialized = [a \in Assessors \cup {"memory"} |-> TRUE]
    /\ request = NoRequest
    /\ sessions = <<>>
    /\ relevant_memories = <<>>
    /\ tasks = NoTasks
    /\ completion = <<>>
    /\ agents = NoAgents
    /\ synth_in = NoSynthIn
    /\ synthesis = NewSynthesis
    /\ retrieve_calls = 0
    /\ store_calls = 0
    /\ memory_id = ""
    /\ other_sessions = OtherSessions
    /\ save_calls = NoSaveCalls
    /\ conversation = NewConversation
    /\ inflight = NoCalls
    /\ direct = NoDirect

\* one call of process_message on the manager, to its return or to its raise
ConversationStep ==
    /\ Len(conversation.turns) < MaxConvTurns
    /\ \E message \in ConversationMessages, detector \in DetectorOutcomes,
          llm_raises \in BOOLEAN :
          LET called == ConversationProcessMessage(conversation, message,
                                                   QuickRiskCheck(message, detector),
                                                   llm_raises)
          IN /\ conversation' = called.conversation
             /\ save_calls' = [save_calls EXCEPT !.conversation = @ + called.saves]
    /\ UNCHANGED <<pc, entry, initialized, request, sessions, relevant_memories, tasks,
                   completion, agents, synth_in, synthesis, retrieve_calls, store_calls,
                   memory_id, other_sessions, inflight, direct>>

ConversationSpec == ConversationInit /\ [][ConversationStep]_vars

\* ================================================================= claims
\* a double within 2^-28 of k hundredths
FloatNear(x, k) ==
    LET expected == k * 5368709 + (k * 12) \div 100
    IN x.hi - expected \in -1..1

FloatLeq(a, b) == ~FloatLess(b, a)

\* the weights of the risk factors sports_data triggers, in hundredths, and
\* the number of those factors
TriggeredWeight(sd) ==
    (IF sd.recent_injury THEN 30 ELSE 0)
    + (IF sd.training_load > 80 THEN 20 ELSE IF sd.training_load > 60 THEN 10 ELSE 0)
    + (IF sd.match_intensity > 80 THEN 20 ELSE IF sd.match_intensity > 60 THEN 10 ELSE 0)
    + (IF sd.games_played > 20 THEN 10 ELSE 0)
    + (IF sd.age > 30 THEN 5 ELSE 0)
    + (IF sd.has_recovery /\ sd.recovery_days < 2 THEN 15 ELSE 0)

TriggeredFactors(sd) ==
    (IF sd.recent_injury THEN 1 ELSE 0)
    + (IF sd.training_load > 60 THEN 1 ELSE 0)
    + (IF sd.match_intensity > 60 THEN 1 ELSE 0)
    + (IF sd.games_played > 20 THEN 1 ELSE 0)
    + (IF sd.age > 30 THEN 1 ELSE 0)
    + (IF sd.has_recovery /\ sd.recovery_days < 2 THEN 1 ELSE 0)

Reports(section, level) == section.present /\ section.risk_level = level

MentalReports(level) == Reports(synth_in.mental.risk_assessment, level)

PhysicalReports(level) == Reports(synth_in.physical.injury_risk, level)

Status == synthesis.overall_health_status

AfterMentalSection == {"s_physical", "s_economic", "s_memory", "s_closing", "done"}

Contains(list, item) == \E i \in 1..Len(list) : list[i] = item

\* list `part` occurs in `list` as a contiguous run
ContainsRun(list, part) == IsSubstring(part, list)

\* C1: precedence law.  Once the mental section of _synthesize_results has
\* seen risk_level 'high', overall_health_status is 'critical' and stays so
\* through the physical, economic, memory and closing sections, whatever the
\* physical result, the economic result and the memory hits are.
C1_MentalHighIsCritical ==
    (pc \in AfterMentalSection /\ MentalReports("high")) => Status = "critical"

C1_Witness ==
    /\ pc = "done"
    /\ MentalReports("high")
    /\ PhysicalReports("high")
    /\ synth_in.economics.economic_assessment.present
    /\ Len(synth_in.economics.barriers) > 0
    /\ Len(synth_in.memories) > 0
    /\ Status = "critical"

\* C2: a 'medium' mental or physical result raises a status that is still
\* 'good' to 'attention_needed' and appends the assessor's recommendations,
\* adding no priority entry and no warning; mental 'low' with physical
\* 'medium' ends as 'attention_needed' with the moderate closing message.
C2_MediumRaisesStatus ==
    pc = "done" =>
        /\ (MentalReports("medium") =>
               /\ Rank(Status) >= 1
               /\ ContainsRun(synthesis.recommendations, synth_in.mental.recommendations)
               /\ ~Contains(synthesis.priority, PriorityMental)
               /\ ~Contains(synthesis.warnings, MentalWarning))
        /\ (PhysicalReports("medium") =>
               /\ Rank(Status) >= 1
               /\ ContainsRun(synthesis.recommendations, synth_in.physical.recommendations)
               /\ ~Contains(synthesis.priority, PriorityPhysical)
               /\ ~Contains(synthesis.warnings, InjuryWarning))
        /\ ((MentalReports("low") /\ PhysicalReports("medium")) =>
               /\ Status = "attention_needed"
               /\ synthesis.recommendations[Len(synthesis.recommendations)] = ClosingAttention)

PostSynthesis == {"store", "return", "done"}

\* an error-marked result replaced by what a result without any finding is
Sanitized(result) == IF result.error THEN EmptyDict ELSE result

\* C3: error-marked results are treated as risk_level 'low'.  The verdict of
\* process_message is the one the merge gives when every assessor result that
\* carries an 'error' field is replaced by a result without findings: such a
\* result escalates nothing and adds no warning and no recommendation.
C3_ErrorMarkedIsLow ==
    pc \in PostSynthesis =>
        synthesis = SynthesizeResults(Sanitized(synth_in.mental),
                                      Sanitized(synth_in.physical),
                                      Sanitized(synth_in.economics),
                                      synth_in.memories)

\* the 'low' result of an assessor
LowResult(a) ==
    IF a = "mental" THEN MentalAnalyze(TRUE, "low", "ok")
    ELSE IF a = "physical"
    THEN [EmptyDict EXCEPT !.agent_type = "physical_health",
                           !.injury_risk = [present |-> TRUE, risk_level |-> "low",
                                            risk_score |-> D_0_0]]
    ELSE [EmptyDict EXCEPT !.agent_type = "economics_health",
                           !.economic_assessment = [present |-> TRUE,
                                                    relative_level |-> ""],
                           !.healthcare_accessibility = NeutralAccessibility]

StatusWith(a, result) ==
    LET args == [synth_in EXCEPT ![a] = result]
    IN SynthesizeResults(args.mental, args.physical, args.economics,
                         args.memories).overall_health_status

AllRaised == \A a \in Assessors : tasks[a].raised

\* C4: fail-safe law.  After the synthesis of a process_message call, an
\* assessor whose task raised has not made overall_health_status higher than
\* its 'low' result would have; when all three raised the status is 'good',
\* the three agent entries carry 'error', there is no warning and the only
\* recommendation is the positive closing message.
C4_FailSafe ==
    pc \in PostSynthesis =>
        /\ \A a \in Assessors :
              tasks[a].raised => Rank(Status) <= Rank(StatusWith(a, LowResult(a)))
        /\ AllRaised =>
              /\ Status = "good"
              /\ agents.mental_health.error
              /\ agents.physical_health.error
              /\ agents.economics_health.error
              /\ synthesis.warnings = <<>>
              /\ synthesis.recommendations = <<ClosingGood>>

C4_Witness ==
    /\ pc = "done"
    /\ AllRaised
    /\ Len(relevant_memories) > 0
    /\ Status = "good"

NoMentalPhysicalFinding ==
    /\ ~MentalReports("high") /\ ~MentalReports("medium")
    /\ ~PhysicalReports("high") /\ ~PhysicalReports("medium")

\* C5 as stated: with no 'high' or 'medium' from the mental and the physical
\* result and no economic barriers, the verdict is 'good' without warnings,
\* whatever the accessibility score and the memory hits are.
C5_NoFindingNoWarning ==
    (pc = "done" /\ NoMentalPhysicalFinding /\ synth_in.economics.barriers = <<>>)
        => (Status = "good" /\ synthesis.warnings = <<>>)

AccessibilityScoreLow ==
    /\ synth_in.economics.economic_assessment.present
    /\ ScoreBelowHalf(synth_in.economics.healthcare_accessibility)

\* C5 amended: with no 'high' or 'medium' from the mental and the physical
\* result the verdict is 'good'; it has no warnings when moreover there are no
\* economic barriers and the economic result does not carry an accessibility
\* overall_score below 0.5.
C5_NoFindingNoWarningUnlessLowScore ==
    (pc = "done" /\ NoMentalPhysicalFinding) =>
        /\ Status = "good"
        /\ (synth_in.economics.barriers = <<>> /\ ~AccessibilityScoreLow)
              => synthesis.warnings = <<>>

C5_Witness ==
    /\ pc = "done"
    /\ MentalReports("low")
    /\ PhysicalReports("low")
    /\ synth_in.economics.economic_assessment.present
    /\ synth_in.economics.barriers = <<>>
    /\ ScoreAboveSevenTenths(synth_in.economics.healthcare_accessibility)
    /\ Len(synth_in.memories) > 0
    /\ synthesis.warnings = <<>>
    /\ Status = "good"

\* C6: monotonicity.  From one section of _synthesize_results to the next
\* (init, mental, physical, economic, memory, closing) the rank of
\* overall_health_status in good < attention_needed < critical never drops.
C6_StatusNeverDecreases ==
    [][Rank(synthesis'.overall_health_status) >= Rank(synthesis.overall_health_status)]_vars

C6_Witness ==
    /\ pc = "done"
    /\ MentalReports("high")
    /\ PhysicalReports("high")
    /\ Status = "critical"

\* C7: a physical 'high' raises 'good' to 'attention_needed', leaves
\* 'critical' as it is, and in both cases adds the injury warning, the
\* physical priority entry and the physical recommendations; with mental
\* 'low' and no economic result the recommendations are the physical ones
\* followed by the moderate closing message.
C7_PhysicalHigh ==
    (pc = "done" /\ PhysicalReports("high")) =>
        /\ Status = (IF MentalReports("high") THEN "critical" ELSE "attention_needed")
        /\ Contains(synthesis.warnings, InjuryWarning)
        /\ Contains(synthesis.priority, PriorityPhysical)
        /\ ContainsRun(synthesis.recommendations, synth_in.physical.recommendations)
        /\ (MentalReports("low") /\ ~synth_in.economics.economic_assessment.present)
              => synthesis.recommendations
                   = Append(synth_in.physical.recommendations, ClosingAttention)

C7_Witness ==
    /\ pc = "done"
    /\ PhysicalReports("high")
    /\ MentalReports("low")
    /\ ~synth_in.economics.economic_assessment.present
    /\ Status = "attention_needed"

\* C8: non-interference.  overall_health_status and priority of a verdict are
\* those of the merge of the same mental and physical results with an empty
\* economic result and no memory hit: the economic result and the memory hits
\* of the call have no influence on them.
C8_EconomicAndMemoryDoNotInterfere ==
    pc = "done" =>
        LET reference == SynthesizeResults(synth_in.mental, synth_in.physical,
                                           EmptyDict, <<>>)
        IN /\ Status = reference.overall_health_status
           /\ synthesis.priority = reference.priority

C8_Witness ==
    /\ pc = "done"
    /\ synth_in.economics.economic_assessment.present
    /\ Len(synth_in.economics.barriers) > 1
    /\ AccessibilityScoreLow
    /\ Len(synth_in.memories) > 0
    /\ Len(synthesis.warnings) = 2
    /\ Status = "good"

\* C9: ordering law.  Whatever the order in which the three tasks finish,
\* the synthesis receives each assessor's own result in the mental, physical
\* and economic argument, so status and priority are those of the merge of
\* the assessors' outputs taken by identity.
C9_OrderIndependent ==
    /\ pc \in {"synthesize"} \cup PostSynthesis =>
          /\ synth_in.mental = SynthArg(tasks.mental)
          /\ synth_in.physical = SynthArg(tasks.physical)
          /\ synth_in.economics = SynthArg(tasks.economics)
    /\ pc \in PostSynthesis =>
          LET by_identity == SynthesizeResults(SynthArg(tasks.mental),
                                               SynthArg(tasks.physical),
                                               SynthArg(tasks.economics),
                                               relevant_memories)
          IN /\ Status = by_identity.overall_health_status
             /\ synthesis.priority = by_identity.priority

C9_Witness ==
    /\ pc = "store"
    /\ completion = <<"economics", "physical", "mental">>
    /\ Reports(tasks.mental.value.risk_assessment, "high")
    /\ Reports(tasks.physical.value.injury_risk, "high")
    /\ synthesis.priority = <<PriorityMental, PriorityPhysical>>
    /\ Status = "critical"

CallOrder ==
    /\ (\E a \in Assessors : tasks[a].state # "new") => retrieve_calls = 1
    /\ pc \in {"synthesize"} \cup PostSynthesis => \A a \in Assessors : tasks[a].state = "done"
    /\ store_calls <= 1
    /\ store_calls = 1 => pc \in {"return", "done"}
    /\ pc \in {"return", "done"} =>
          /\ store_calls = 1
          /\ synthesis = SynthesizeResults(synth_in.mental, synth_in.physical,
                                           synth_in.economics, synth_in.memories)

\* C10: the steps of one process_message call.  No assessor is started before
\* the memory retrieval has returned, the synthesis is entered only when the
\* three tasks are done, store_experience is called once and only with the
\* finished verdict, and a call that has been received returns.
C10_StepOrder == []CallOrder /\ ((pc = "retrieve") ~> (pc = "done"))

C10_Witness ==
    /\ pc = "done"
    /\ retrieve_calls = 1
    /\ store_calls = 1
    /\ \E a \in Assessors : tasks[a].raised

\* the entry of result['agents'] and the gathered task of an assessor
AgentOf(a) ==
    IF a = "mental" THEN agents.mental_health
    ELSE IF a = "physical" THEN agents.physical_health
    ELSE agents.economics_health

\* C11: once the results of a process_message call are recorded,
\* result['agents'] holds one entry for the memory lookup and one for each of
\* the three assessors, whatever subset of them raised; the entry of an
\* assessor that raised is the error-marked dict, the entry of one that
\* returned is what it returned; the call goes on to the synthesis.
C11_OneEntryPerAssessor ==
    pc \in {"synthesize"} \cup PostSynthesis =>
        /\ agents.keys = <<"memory", "mental_health", "physical_health", "economics_health">>
        /\ \A a \in Assessors :
              /\ tasks[a].raised => AgentOf(a) = ErrorDict
              /\ ~tasks[a].raised => AgentOf(a) = tasks[a].value

C11_Witness ==
    /\ pc = "done"
    /\ tasks.mental.raised
    /\ ~tasks.physical.raised
    /\ tasks.economics.raised
    /\ agents.mental_health.error
    /\ agents.physical_health.agent_type = "physical_health"
    /\ Len(agents.keys) = 4

SynthesisFields ==
    {"overall_health_status", "priority", "recommendations", "warnings", "insights"}

\* C12: every degraded sub-result is visible.  When the injury prediction
\* fails on malformed sports_data, or an assessor's own result is
\* error-marked, the assessor's entry of result['agents'] carries 'error',
\* and the synthesis has its five fields.
C12_DegradedVisible ==
    pc \in PostSynthesis =>
        /\ (initialized["physical"] /\ ~tasks.physical.raised
               /\ request.sports_data.kind = "malformed")
              => agents.physical_health.error
        /\ \A a \in Assessors : tasks[a].value.error => AgentOf(a).error
        /\ DOMAIN synthesis = SynthesisFields

When(condition, list) == IF condition THEN list ELSE <<>>

\* C13: the priority list of a verdict is the mental entry exactly when the
\* mental result reports 'high', followed by the physical entry exactly when
\* the physical result reports 'high'; nothing else enters it.
C13_PriorityList ==
    pc = "done" =>
        synthesis.priority = When(MentalReports("high"), <<PriorityMental>>)
                             \o When(PhysicalReports("high"), <<PriorityPhysical>>)

C13_Witness ==
    /\ pc = "done"
    /\ MentalReports("high")
    /\ PhysicalReports("medium")
    /\ Len(synth_in.economics.barriers) > 0
    /\ synth_in.economics.economic_assessment.present
    /\ Len(synth_in.memories) > 0
    /\ synthesis.priority = <<PriorityMental>>

ClosingMessages == {ClosingGood, ClosingAttention, ClosingCritical}

\* C14: a returned verdict has exactly one closing recommendation, as the
\* last element of recommendations: the positive message for 'good', the
\* moderate one for 'attention_needed', the urgent referral for 'critical'.
C14_OneClosing ==
    pc = "done" =>
        LET recs == synthesis.recommendations
        IN /\ Len(recs) > 0
           /\ Cardinality({i \in 1..Len(recs) : recs[i] \in ClosingMessages}) = 1
           /\ Status = "good" => recs[Len(recs)] = ClosingGood
           /\ Status = "attention_needed" => recs[Len(recs)] = ClosingAttention
           /\ Status = "critical" => recs[Len(recs)] = ClosingCritical

C14_Witness ==
    /\ pc = "done"
    /\ Status = "critical"
    /\ Len(synthesis.recommendations) > 1
    /\ synthesis.recommendations[Len(synthesis.recommendations)] = ClosingCritical

\* the recommendation lists that enter the verdict: the mental one for
\* 'medium', the physical one for 'medium' and 'high', the economic one of an
\* economic assessment
MentalContribution == When(MentalReports("medium"), synth_in.mental.recommendations)

PhysicalContribution ==
    When(PhysicalReports("medium") \/ PhysicalReports("high"),
         synth_in.physical.recommendations)

EconomicContribution ==
    When(synth_in.economics.economic_assessment.present,
         synth_in.economics.recommendations)

\* C15: before the closing entry, recommendations is the concatenation of the
\* contributed lists in the order mental, physical, economic, each economic
\* entry carrying the economic prefix, without deduplication: its length is
\* the sum of the contributed lengths plus one.
C15_Concatenation ==
    pc = "done" =>
        /\ Prefix(synthesis.recommendations, Len(synthesis.recommendations) - 1)
             = MentalContribution \o PhysicalContribution
               \o [i \in 1..Len(EconomicContribution) |->
                      IF Head(EconomicContribution[i]) = "MONEY"
                      THEN EconomicContribution[i]
                      ELSE <<"MONEY", " ">> \o EconomicContribution[i]]
        /\ Len(synthesis.recommendations)
             = Len(MentalContribution) + Len(PhysicalContribution)
               + Len(EconomicContribution) + 1

C15_Witness ==
    /\ pc = "done"
    /\ MentalReports("medium")
    /\ PhysicalReports("high")
    /\ Len(EconomicContribution) > 0
    /\ Cardinality({i \in 1..Len(synthesis.recommendations) :
                       synthesis.recommendations[i] = <<"same_advice">>}) = 2

\* an economic result as the economics assessor returns it: an economic
\* assessment, or a dict without barriers and without accessibility score
EconomicResultFromAssessor ==
    \/ synth_in.economics.economic_assessment.present
    \/ /\ synth_in.economics.barriers = <<>>
       /\ ~synth_in.economics.healthcare_accessibility.has_score

\* C16: the warnings of a verdict are, in this order, the mental crisis
\* warning iff mental risk is 'high', the injury warning iff physical risk is
\* 'high', one barrier warning iff there is any economic barrier, and the
\* accessibility warning iff the overall_score is below 0.5.
C16_Warnings ==
    (pc = "done" /\ EconomicResultFromAssessor) =>
        synthesis.warnings
          = When(MentalReports("high"), <<MentalWarning>>)
            \o When(PhysicalReports("high"), <<InjuryWarning>>)
            \o When(Len(synth_in.economics.barriers) > 0, <<BarrierWarning>>)
            \o When(ScoreBelowHalf(synth_in.economics.healthcare_accessibility),
                    <<AccessibilityWarning>>)

C16_Witness ==
    /\ pc = "done"
    /\ ~MentalReports("high")
    /\ ~PhysicalReports("high")
    /\ synth_in.economics.economic_assessment.present
    /\ Len(synth_in.economics.barriers) = 3
    /\ synth_in.economics.healthcare_accessibility = [has_score |-> TRUE, num |-> 4, den |-> 10]
    /\ synthesis.warnings = <<BarrierWarning, AccessibilityWarning>>

\* C17: the insights of a verdict are, in this order, the first two economic
\* barriers (all of them when fewer), the accessibility insight iff the
\* overall_score is above 0.7, and one memory insight giving the number of
\* hits iff there is any memory hit.
C17_Insights ==
    (pc = "done" /\ EconomicResultFromAssessor) =>
        LET barriers == synth_in.economics.barriers
            score == synth_in.economics.healthcare_accessibility
            hits == Len(synth_in.memories)
        IN /\ synthesis.insights
                = SubSeq(barriers, 1, IF Len(barriers) > 2 THEN 2 ELSE Len(barriers))
                  \o When(score.has_score /\ 10 * score.num > 7 * score.den,
                          <<AccessibilityInsight>>)
                  \o When(hits > 0, << <<"history_relevant_experiences", ToString(hits)>> >>)
           /\ ~(Contains(synthesis.insights, AccessibilityInsight)
                  /\ Contains(synthesis.warnings, AccessibilityWarning))

C17_Witness ==
    /\ pc = "done"
    /\ Len(synth_in.economics.barriers) = 3
    /\ synth_in.economics.healthcare_accessibility = [has_score |-> TRUE, num |-> 8, den |-> 10]
    /\ Len(synth_in.memories) = 2
    /\ Len(synthesis.insights) = 4

InSynthesis == {"s_mental", "s_physical", "s_economic", "s_memory", "s_closing"}

TurnStored ==
    /\ sessions # <<>>
    /\ Head(sessions) # <<>>
    /\ Head(sessions)[Len(Head(sessions))] = ExperienceTurn(request.message)

\* C19: memory storage is best-effort.  The store step leaves the agents and
\* synthesis sections of the response as they are and hands control to the
\* return, whether it stored or not; the response holds 'memory_id' exactly
\* when the turn was stored.
C19_BestEffortStore ==
    /\ []((pc \in {"return", "done"}) => ((memory_id # "") <=> TurnStored))
    /\ [][(pc = "store") => (agents' = agents /\ synthesis' = synthesis /\ pc' = "return")]_vars

C19_Witness ==
    /\ pc = "done"
    /\ initialized["memory"]
    /\ memory_id = ""
    /\ ~TurnStored
    /\ agents.keys = <<"memory", "mental_health", "physical_health", "economics_health">>
    /\ Len(synthesis.recommendations) > 0

\* C20: retrieve_relevant_memories never fails its caller and returns at
\* most top_k hits: nothing when the memory agent is uninitialized or the
\* memory system raises; the synthesis sees at most 5 hits, the response
\* counts at most 5 and lists the first 3 of them at most.
C20_BoundedRetrieval ==
    pc \notin {"idle", "retrieve"} =>
        /\ Len(relevant_memories) <= 5
        /\ ~initialized["memory"] => relevant_memories = <<>>
        /\ RetrieveRelevantMemories(TRUE, TRUE, sessions, request.message, 5) = <<>>
        /\ agents.memory.relevant_memories_count = Len(relevant_memories)
        /\ Len(agents.memory.memories) <= 3
        /\ agents.memory.memories
             = SubSeq(relevant_memories, 1,
                      IF Len(relevant_memories) > 3 THEN 3 ELSE Len(relevant_memories))
        /\ pc \in {"synthesize"} \cup PostSynthesis => synth_in.memories = relevant_memories

C20_Witness ==
    /\ pc = "done"
    /\ Len(CollectMemories(request.message, sessions)) > 5
    /\ agents.memory.relevant_memories_count = 5
    /\ Len(agents.memory.memories) = 3
    /\ Len(synth_in.memories) = 5

\* C25: for every sports_data the rule-based prediction accepts, risk_score
\* is the sum of the triggered weights capped at 1.0 (as a double, within
\* rounding) and lies in [0, 1]; risk_level is 'low' iff score < 0.3,
\* 'medium' iff 0.3 <= score < 0.6, 'high' iff score >= 0.6, for the score
\* returned and for the exact sum alike; confidence is
\* min(0.9, 0.5 + 0.1 * number of risk factors) and lies in [0.5, 0.9].
C25_ScoreLevelConfidence ==
    direct.fn = "_predict_with_rules" =>
        LET p == direct.prediction
            weight == Min(100, TriggeredWeight(direct.sports_data))
            n == TriggeredFactors(direct.sports_data)
        IN /\ FloatNear(p.risk_score, weight)
           /\ FloatLeq(D_0_0, p.risk_score) /\ FloatLeq(p.risk_score, D_1_0)
           /\ (p.risk_level = "low") = FloatLess(p.risk_score, D_0_3)
           /\ (p.risk_level = "medium") =
                  (FloatLeq(D_0_3, p.risk_score) /\ FloatLess(p.risk_score, D_0_6))
           /\ (p.risk_level = "high") = FloatLeq(D_0_6, p.risk_score)
           /\ (p.risk_level = "low") = (weight < 30)
           /\ (p.risk_level = "high") = (weight >= 60)
           /\ Len(p.risk_factors) = n
           /\ FloatNear(p.confidence, Min(90, 50 + 10 * n))
           /\ FloatLeq(D_0_5, p.confidence) /\ FloatLeq(p.confidence, D_0_9)

\* all six factors triggered: the sum reaches 1.0 and the confidence its cap
C25_Witness ==
    /\ direct.fn = "_predict_with_rules"
    /\ TriggeredFactors(direct.sports_data) = 6
    /\ direct.prediction.risk_score = D_1_0
    /\ direct.prediction.confidence = D_0_9
    /\ direct.prediction.risk_level = "high"

\* the block of tiered recommendations a list of recommendations starts with
RecommendationTier(recommendations) ==
    IF recommendations = <<>> THEN "none"
    ELSE IF recommendations[1] = <<"WARN", "reduce_training_now">> THEN "urgent"
    ELSE IF recommendations[1] = <<"adjust_training_plan">> THEN "moderate"
    ELSE IF recommendations[1] = <<"keep_current_plan">> THEN "maintenance"
    ELSE "none"

\* C26: for every sports_data, PhysicalHealthAgent.analyze returns the urgent
\* recommendation block iff injury_risk.risk_level is 'high', the moderate
\* block iff it is 'medium' and the maintenance block iff it is 'low',
\* the boundary scores 0.3 and 0.6 included.
C26_TierAgreesWithLevel ==
    (direct.fn = "PhysicalHealthAgent.analyze" /\ direct.sports_data.kind # "none") =>
        LET level == direct.analysis.injury_risk.risk_level
            tier == RecommendationTier(direct.analysis.recommendations)
        IN /\ (tier = "urgent") = (level = "high")
           /\ (tier = "moderate") = (level = "medium")
           /\ (tier = "maintenance") = (level = "low")

\* C23: when neither income nor country is supplied, EconomicsHealthAgent.analyze
\* does not raise and returns a result without 'error' whose income
\* relative_level is 'unknown', whose healthcare_accessibility overall_score
\* is the neutral 0.5 and whose recommendations and opportunities are empty.
C23_MissingContextIsNoError ==
    (/\ direct.fn = "EconomicsHealthAgent.analyze"
     /\ direct.user_income = NoIncome
     /\ direct.country_code = "") =>
        /\ ~direct.raised
        /\ ~direct.analysis.error
        /\ direct.analysis.economic_assessment.present
        /\ direct.analysis.economic_assessment.relative_level = "unknown"
        /\ direct.analysis.healthcare_accessibility.has_score
        /\ 2 * direct.analysis.healthcare_accessibility.num
              = direct.analysis.healthcare_accessibility.den
        /\ direct.analysis.recommendations = <<>>
        /\ direct.analysis.opportunities = <<>>

C23_Witness ==
    /\ direct.fn = "EconomicsHealthAgent.analyze"
    /\ direct.user_income = NoIncome
    /\ direct.country_code = ""
    /\ direct.health_concerns = "mental"
    /\ direct.analysis.agent_type = "economics_health"
    /\ direct.analysis.economic_assessment.relative_level = "unknown"

IncomeUnknownBarrier == <<"income_unknown_cannot_assess_barriers">>

\* C27: for every income and country, the barrier 'income information
\* unknown' is reported iff the income is classified as relative_level
\* 'unknown'; an income that is supplied, 0 included, is classified into a
\* level and never produces that barrier.
C27_IncomeKnownConsistently ==
    (direct.fn = "EconomicsHealthAgent.analyze" /\ ~direct.analysis.error) =>
        LET unknown == direct.analysis.economic_assessment.relative_level = "unknown"
            barrier == Contains(direct.analysis.barriers, IncomeUnknownBarrier)
        IN /\ barrier = unknown
           /\ direct.user_income.kind = "num" => (~unknown /\ ~barrier)

\* C28: a request that supplies no user income and whose economics assessor
\* ran without error has exactly one barrier in its economic result, the
\* income-unknown one; the verdict's warnings hold the economic-barrier
\* warning and its insights that barrier, whatever the mental and physical
\* results are, so the warnings of such a request are never empty.
C28_NoIncomeAlwaysWarns ==
    (/\ entry = "process_message"
     /\ pc \in PostSynthesis
     /\ request.user_income = NoIncome
     /\ ~tasks.economics.raised
     /\ ~agents.economics_health.error) =>
        /\ agents.economics_health.barriers = <<IncomeUnknownBarrier>>
        /\ Contains(synthesis.warnings, BarrierWarning)
        /\ Contains(synthesis.insights, IncomeUnknownBarrier)
        /\ synthesis.warnings # <<>>

\* no income, low mental and physical risk, status 'good', and yet a warning
C28_Witness ==
    /\ entry = "process_message"
    /\ pc = "done"
    /\ request.user_income = NoIncome
    /\ ~agents.economics_health.error
    /\ agents.economics_health.agent_type = "economics_health"
    /\ MentalReports("low")
    /\ ~PhysicalReports("medium") /\ ~PhysicalReports("high")
    /\ synthesis.overall_health_status = "good"
    /\ synthesis.warnings = <<BarrierWarning>>

\* the turn a manager has just recorded
LastTurn(conv) == conv.turns[Len(conv.turns)]

\* C29: ConversationManager.process_message appends exactly one turn per
\* handled message, with the risk level of that message's quick check, and
\* saves the session exactly when the turn count becomes a multiple of 5:
\* after n handled messages save_session was called floor(n/5) times and the
\* last n mod 5 turns are unsaved.  A message whose quick check is 'high' is
\* answered by the crisis handler and sets intervention_mode to 'crisis',
\* any other by the therapeutic responder.
C29_OneTurnSaveEveryFifth ==
    /\ [](/\ Len(conversation.turns) = conversation.handled
          /\ save_calls.conversation = conversation.handled \div 5
          /\ conversation.saved_turns = 5 * (conversation.handled \div 5)
          /\ conversation.handled - conversation.saved_turns = conversation.handled % 5)
    /\ [][conversation'.handled # conversation.handled =>
            /\ conversation'.handled = conversation.handled + 1
            /\ conversation'.turns = Append(conversation.turns, LastTurn(conversation'))
            /\ \E detector \in DetectorOutcomes :
                   LastTurn(conversation').risk_level
                       = QuickRiskCheck(LastTurn(conversation').user_message, detector)
            /\ save_calls'.conversation - save_calls.conversation
                   = (IF Len(conversation'.turns) % 5 = 0 THEN 1 ELSE 0)
            /\ IF LastTurn(conversation').risk_level = "high"
               THEN /\ conversation'.handler = "crisis"
                    /\ LastTurn(conversation').agent_response = <<"crisis">>
                    /\ conversation'.intervention_mode = "crisis"
               ELSE /\ conversation'.handler = "therapeutic"
                    /\ LastTurn(conversation').agent_response = <<"therapeutic">>
                    /\ conversation'.intervention_mode = conversation.intervention_mode]_vars

\* seven messages handled, the last one in crisis mode: one save, two turns
\* not saved yet
C29_Witness ==
    /\ conversation.built
    /\ conversation.handled = 7
    /\ save_calls.conversation = 1
    /\ conversation.saved_turns = 5
    /\ LastTurn(conversation).risk_level = "high"
    /\ conversation.intervention_mode = "crisis"

\* C30: in the coordinator flow the conversation manager never persists
\* anything.  The manager MentalHealthAgent.analyze builds for a call holds
\* exactly one turn after its process_message returned, so its every-5-turns
\* save never fires; every save_session call of a request is made by
\* store_experience, and there is at most one.
C30_OnlyStoreSaves ==
    entry = "process_message" =>
        /\ save_calls.conversation = 0
        /\ save_calls.store <= store_calls
        /\ store_calls <= 1
        /\ conversation.handled <= 1
        /\ Len(conversation.turns) = conversation.handled
        /\ conversation.saved_turns = 0

\* the call returned: the manager handled the message, the only save is the
\* one of store_experience
C30_Witness ==
    /\ entry = "process_message"
    /\ pc = "done"
    /\ conversation.built
    /\ Len(conversation.turns) = 1
    /\ LastTurn(conversation).user_message = request.message
    /\ save_calls = [conversation |-> 0, store |-> 1]

\* C21: each processed request is written exactly once.  The store step of a
\* process_message call that stored (it got a memory id) appends exactly one
\* turn, carrying the request's message, to exactly one session of the user,
\* the most recent one or a new one when the user has none, and saves that
\* session once; the turns already there keep their order and content, the
\* other sessions of the user and the sessions of other users are unchanged.
\* A call that could not store writes nothing, and no other step of the call
\* writes to the memory system; the call makes one store_experience call.
C21_WrittenExactlyOnce ==
    /\ [][(pc = "store" /\ pc' = "return") =>
            /\ other_sessions' = other_sessions
            /\ IF memory_id' # ""
               THEN /\ save_calls'.store = save_calls.store + 1
                    /\ IF sessions = <<>>
                       THEN /\ Len(sessions') = 1
                            /\ Len(sessions'[1]) = 1
                            /\ sessions'[1][1].user_message = request.message
                       ELSE /\ Len(sessions') = Len(sessions)
                            /\ Tail(sessions') = Tail(sessions)
                            /\ Len(Head(sessions')) = Len(Head(sessions)) + 1
                            /\ Prefix(Head(sessions'), Len(Head(sessions))) = Head(sessions)
                            /\ Head(sessions')[Len(Head(sessions'))].user_message
                                   = request.message
               ELSE /\ sessions' = sessions
                    /\ save_calls'.store = save_calls.store]_vars
    /\ [][pc # "store" =>
            /\ sessions' = sessions
            /\ other_sessions' = other_sessions
            /\ save_calls'.store = save_calls.store]_vars
    /\ [](pc \in {"return", "done"} => store_calls = 1 /\ save_calls.store <= 1)

\* a request of a user with sessions was stored: the most recent session has
\* one turn more, the older one is as it was
C21_Witness ==
    /\ pc = "done"
    /\ memory_id # ""
    /\ Len(sessions) = MaxSessions
    /\ Len(Head(sessions)) = MaxTurns + 1
    /\ Head(sessions)[MaxTurns + 1].user_message = request.message
    /\ Prefix(Head(sessions), MaxTurns) = [j \in 1..MaxTurns |-> StoredTurn]
    /\ save_calls.store = 1

\* C22: the turn store_experience appends for a process_message call carries
\* the request's message together with the response text and the risk level
\* the analysis produced for that request (the response of the conversation
\* manager and the risk level of the mental assessment), so that a later
\* retrieval returns them.
C22_StoredTurnCarriesOutcome ==
    (/\ entry = "process_message"
     /\ pc \in {"return", "done"}
     /\ memory_id # "") =>
        LET turn == Head(sessions)[Len(Head(sessions))]
            assessed == agents.mental_health.risk_assessment
        IN /\ turn.user_message = request.message
           /\ (assessed.present /\ assessed.risk_level # "")
                  => turn.risk_level = assessed.risk_level
           /\ (conversation.handled = 1 /\ ~agents.mental_health.error)
                  => turn.agent_response = LastTurn(conversation).agent_response

\* the turns the user's most recent session held before the two calls: the
\* user had no session, or MaxSessions sessions of MaxTurns turns
TurnsBefore == IF Len(sessions) = MaxSessions THEN MaxTurns ELSE 0

StoredCalls == {c \in 1..2 : inflight[c].pc = "done" /\ inflight[c].memory_id # ""}

\* C24: two process_message calls for the same user in flight on one
\* coordinator.  In every interleaving each call that stored has its turn in
\* the user's most recent session: the session grew by one turn per stored
\* call, so when both are done and stored both turns are there, in the order
\* of the stores, after the turns the session had.  Each call's verdict is
\* the merge of its own assessor results and its own memory read.
C24_NoLostUpdate ==
    /\ [](LET turns == IF sessions = <<>> THEN <<>> ELSE Head(sessions)
          IN /\ Len(turns) = TurnsBefore + Cardinality(StoredCalls)
             /\ \A c \in StoredCalls :
                    \E i \in (TurnsBefore + 1)..Len(turns) :
                        turns[i].user_message = inflight[c].message
             /\ \A i \in 1..TurnsBefore : turns[i] = StoredTurn
             /\ save_calls.store = Cardinality(StoredCalls))
    /\ [](\A c \in 1..2 :
            inflight[c].pc = "done" =>
                /\ inflight[c].synthesis
                       = CallVerdict(inflight[c].message, inflight[c].crisis,
                                     inflight[c].relevant_memories)
                /\ \/ inflight[c].relevant_memories = <<>>
                   \/ inflight[c].relevant_memories
                          = RetrieveRelevantMemories(TRUE, FALSE, inflight[c].read_sessions,
                                                     inflight[c].message, TopK))
    /\ [][\A c \in 1..2 :
            inflight[c].pc = "done" => inflight'[c] = inflight[c]]_vars

\* both calls read the memory before either stored, and both turns are in
\* the session
C24_Witness ==
    /\ StoredCalls = {1, 2}
    /\ inflight[1].read_sessions = inflight[2].read_sessions
    /\ inflight[1].message # inflight[2].message
    /\ Len(Head(sessions)) = TurnsBefore + 2
    /\ Head(sessions)[TurnsBefore + 1].user_message = inflight[2].message
    /\ Head(sessions)[TurnsBefore + 2].user_message = inflight[1].message
====
